---- MODULE Spec2Model ----
(***************************************************************************)
(* Model of the hybrid retrieval engine (src/vector_store.py, VectorStore) *)
(* and of the files it persists to.                                        *)
(*                                                                         *)
(* Conventions                                                             *)
(*  - A text is a sequence of words; _tokenize lower-cases each word.      *)
(*  - Python's None is the record field isNone = TRUE.                     *)
(*  - document_metadata is a Python dict: an insertion-ordered sequence of *)
(*    records keyed by document_id.                                        *)
(*  - Scores are exact rationals kept as integers over a stated            *)
(*    denominator: dense components in units of 1/DenseScale, alpha in     *)
(*    tenths.                                                              *)
(*  - Chunk texts are non-empty (chunk_text emits no empty chunk) and the   *)
(*    provider, when it answers, returns one vector per text.              *)
(*  - The engine has a single caller: a call is made when no call is       *)
(*    outstanding, runs to completion, and leaves its arguments and        *)
(*    outcome in `last` until the caller takes them (Respond).             *)
(***************************************************************************)
EXTENDS Integers, Sequences, FiniteSets, TLC

VARIABLES
    vectors,            \* self.vectors: None or the dense matrix (rows)
    chunks_metadata,    \* self.chunks_metadata: ordered chunk records
    document_metadata,  \* self.document_metadata: ordered dict of records
    bm25,               \* self.bm25: None or the index built over a corpus
    tokenized_corpus,   \* self.tokenized_corpus
    file_vectors,       \* vectors.npy
    file_chunks,        \* chunks_metadata.pkl
    file_docs,          \* document_metadata.json
    last,               \* the last completed call and its outcome
    tasks,              \* the service's background ingestion task of each document
    rate_limit_store,   \* app.py rate_limit_store: client address -> admission times
    clock,              \* time.time(), in seconds
    admitted_log,       \* history: every admission time of each client, never pruned
    threads             \* the engine call in progress on each thread, with its locals

mem  == <<vectors, chunks_metadata, document_metadata, bm25, tokenized_corpus>>
disk == <<file_vectors, file_chunks, file_docs>>
vars == <<vectors, chunks_metadata, document_metadata, bm25, tokenized_corpus,
          file_vectors, file_chunks, file_docs, last, tasks,
          rate_limit_store, clock, admitted_log, threads>>
web  == <<rate_limit_store, clock, admitted_log>>

----------------------------------------------------------------------------
(* Bounds of the model *)

MaxChunks == 3      \* cap on chunk records / matrix rows in the small specs
MaxBigDocs == 2     \* cap, in whole big payloads, on the store of SpecBatch

(* Program constants *)

batch_size == 20    \* add_chunks: batch_size = 20

----------------------------------------------------------------------------
(* Generic helpers *)

Min(a, b) == IF a <= b THEN a ELSE b

RECURSIVE SeqSum(_)
SeqSum(s) == IF s = <<>> THEN 0 ELSE Head(s) + SeqSum(Tail(s))

----------------------------------------------------------------------------
(* Inputs: documents, texts, chunk payloads *)

Docs == {"d1", "d2"}

\* client addresses (request.client.host)
Clients == {"10.0.0.1", "10.0.0.2"}

T1 == <<"Cats", "mammals">>
T2 == <<"dogs", "mammals">>
T3 == <<"rocks">>

WordLen(w) ==
    CASE w = "Cats" -> 4 [] w = "cats" -> 4 [] w = "dogs" -> 4
      [] w = "rocks" -> 5 [] w = "Rocks" -> 5 [] w = "mammals" -> 7
      [] w = "Mammals" -> 7 [] OTHER -> 1

\* len(text) for words joined by single spaces
CharCount(text) == SeqSum([i \in 1..Len(text) |-> WordLen(text[i])]) + (Len(text) - 1)

\* DocumentProcessor._create_chunk_dict
MkChunk(text, index, filename) ==
    [text |-> text, chunk_index |-> index, filename |-> filename,
     char_count |-> CharCount(text), approx_tokens |-> CharCount(text) \div 4]

PayloadA == << MkChunk(T1, 0, "a.txt") >>
PayloadB == << MkChunk(T2, 0, "b.txt"), MkChunk(T3, 1, "b.txt") >>

\* a document of 2 * batch_size + 1 chunks: three embedding batches
TextNo(i) == IF i % 3 = 0 THEN T1 ELSE IF i % 3 = 1 THEN T2 ELSE T3
PayloadBig == [i \in 1..(2 * batch_size + 1) |-> MkChunk(TextNo(i - 1), i - 1, "big.txt")]

SmallPayloads == {<<>>, PayloadA, PayloadB}

----------------------------------------------------------------------------
(* VectorStore._tokenize: text.lower().split() *)

Lower(w) ==
    CASE w = "Cats" -> "cats" [] w = "Rocks" -> "rocks"
      [] w = "Mammals" -> "mammals" [] OTHER -> w

_tokenize(text) == [i \in 1..Len(text) |-> Lower(text[i])]

----------------------------------------------------------------------------
(* The embedding provider (genai.embed_content), an external collaborator: *)
(* a fixed answer per text.  Vectors have integer norms 0, 1 or 5.         *)

DocVector(text) ==
    LET w == Lower(text[1]) IN
    CASE w = "cats" -> <<1, 0>>
      [] w = "dogs" -> <<3, 4>>
      [] OTHER      -> <<0, 0>>

\* Mutant: each slice runs one text into the next batch
EmbedBatches_overlapping(texts, fail_batch) ==
    LET RECURSIVE loop(_, _, _, _)
        loop(i, no, embeddings, calls) ==
            IF i >= Len(texts)
            THEN [ok |-> TRUE, embeddings |-> embeddings, calls |-> calls]
            ELSE LET batch_texts == SubSeq(texts, i + 1, Min(i + batch_size + 1, Len(texts)))
                 IN IF no = fail_batch
                    THEN [ok |-> FALSE, embeddings |-> embeddings,
                          calls |-> Append(calls, batch_texts)]
                    ELSE loop(i + batch_size, no + 1,
                              embeddings \o [j \in 1..Len(batch_texts) |-> DocVector(batch_texts[j])],
                              Append(calls, batch_texts))
    IN loop(0, 1, <<>>, <<>>)

\* Mutant: a failing batch is logged and skipped instead of re-raised
EmbedBatches_skipFailed(texts, fail_batch) ==
    LET RECURSIVE loop(_, _, _, _)
        loop(i, no, embeddings, calls) ==
            IF i >= Len(texts)
            THEN [ok |-> TRUE, embeddings |-> embeddings, calls |-> calls]
            ELSE LET batch_texts == SubSeq(texts, i + 1, Min(i + batch_size, Len(texts)))
                 IN loop(i + batch_size, no + 1,
                         IF no = fail_batch THEN embeddings
                         ELSE embeddings \o [j \in 1..Len(batch_texts) |-> DocVector(batch_texts[j])],
                         Append(calls, batch_texts))
    IN loop(0, 1, <<>>, <<>>)

\* The batch loop of add_chunks (lines 61-77).  fail_batch = 0: the provider
\* answers every batch; fail_batch = k: it raises on the k-th call.
\* calls: the texts passed to the provider, call by call.
EmbedBatches(texts, fail_batch) ==
    LET RECURSIVE loop(_, _, _, _)
        loop(i, no, embeddings, calls) ==
            IF i >= Len(texts)
            THEN [ok |-> TRUE, embeddings |-> embeddings, calls |-> calls]
            ELSE LET batch_texts == SubSeq(texts, i + 1, Min(i + batch_size, Len(texts)))
                 IN IF no = fail_batch
                    THEN [ok |-> FALSE, embeddings |-> embeddings,
                          calls |-> Append(calls, batch_texts)]
                    ELSE loop(i + batch_size, no + 1,
                              embeddings \o [j \in 1..Len(batch_texts) |-> DocVector(batch_texts[j])],
                              Append(calls, batch_texts))
    IN loop(0, 1, <<>>, <<>>)

NumBatches(n) == (n + batch_size - 1) \div batch_size

----------------------------------------------------------------------------
(* None-able values and files *)

NoneValue == [isNone |-> TRUE, rows |-> <<>>]
Matrix(rows) == [isNone |-> FALSE, rows |-> rows]
RowCount(v) == IF v.isNone THEN 0 ELSE Len(v.rows)

\* BM25Okapi(corpus): the index remembers the corpus it was built over
BM25Okapi(corpus) == [isNone |-> FALSE, rows |-> corpus]

NoFile == [exists |-> FALSE, parses |-> FALSE, data |-> <<>>]
File(data) == [exists |-> TRUE, parses |-> TRUE, data |-> data]

\* a file that exists and whose content np.load / pickle.load / json.load rejects
Garbled == [exists |-> TRUE, parses |-> FALSE, data |-> <<>>]

\* os.path.exists(path) and the load inside the try block returns
Readable(f) == f.exists /\ f.parses

----------------------------------------------------------------------------
(* document_metadata as an insertion-ordered dict *)

HasKey(dm, d) == \E i \in 1..Len(dm) : dm[i].document_id = d
KeyIdx(dm, d) == CHOOSE i \in 1..Len(dm) : dm[i].document_id = d
DictGet(dm, d) == dm[KeyIdx(dm, d)]
DictDel(dm, d) == SelectSeq(dm, LAMBDA r : r.document_id # d)
Keys(dm) == {dm[i].document_id : i \in 1..Len(dm)}

----------------------------------------------------------------------------
(* Threads.  The endpoints are coroutines that call the engine without     *)
(* awaiting (app.py lines 194, 229, 328): their engine calls run one at a  *)
(* time on the event-loop thread, "loop".  Each background ingestion is a  *)
(* plain function (app.py line 129) which the framework runs on a worker   *)
(* thread of its own, named here by its document.                          *)

\* a worker thread that has not been given a task
NoCall ==
    [pc |-> "unused", filename |-> "", chunks |-> <<>>, embeddings |-> <<>>,
     old |-> [isNone |-> TRUE, rows |-> <<>>], i |-> 0, alone |-> TRUE]

\* the event-loop thread between two engine calls; saw_mismatch is history:
\* some search so far read a matrix and a record list of different lengths
LoopIdle(saw_mismatch) ==
    [pc |-> "idle", query |-> <<>>, norms |-> <<>>, rows_seen |-> 0,
     vector_results |-> <<>>, index |-> [isNone |-> TRUE, rows |-> <<>>],
     overlap |-> FALSE, saw_mismatch |-> saw_mismatch]

----------------------------------------------------------------------------
(* VectorStore.__init__ before _load_from_disk, and the initial state: a   *)
(* fresh engine on an empty storage directory.                             *)

Init ==
    /\ vectors = NoneValue
    /\ chunks_metadata = <<>>
    /\ document_metadata = <<>>
    /\ bm25 = NoneValue
    /\ tokenized_corpus = <<>>
    /\ file_vectors = NoFile
    /\ file_chunks = NoFile
    /\ file_docs = NoFile
    /\ last = [op |-> "idle"]
    /\ tasks = [d \in Docs |-> [pc |-> "unused", filename |-> "", chunks_count |-> 0]]
    /\ rate_limit_store = [c \in Clients |-> <<>>]
    /\ clock = 0
    /\ admitted_log = [c \in Clients |-> <<>>]
    /\ threads = [t \in Docs \cup {"loop"} |-> IF t = "loop" THEN LoopIdle(FALSE) ELSE NoCall]

\* No call is outstanding
Idle == last.op = "idle"

\* The caller takes the outcome of the call it made
Respond ==
    /\ ~Idle
    /\ last' = [op |-> "idle"]
    /\ UNCHANGED <<mem, disk, tasks, web, threads>>

----------------------------------------------------------------------------
(* VectorStore._save_to_disk: three writes; vectors.npy is written only    *)
(* when self.vectors is not None.                                          *)

SavedVectors(v, old_file) == IF v.isNone THEN old_file ELSE File(v.rows)

_save_to_disk(v, cm, dm) ==
    /\ file_vectors' = SavedVectors(v, file_vectors)
    /\ file_chunks' = File(cm)
    /\ file_docs' = File(dm)

(* VectorStore._load_from_disk into the fields set by __init__.  The files *)
(* written by _save_to_disk always parse; a file that does not parse is    *)
(* caught by the try block of its own load (lines 290, 304, 312).          *)

\* Mutant: the matrix file is loaded without a try block around it
LoadedVectors_noTry(fv) == IF fv.exists THEN Matrix(fv.data) ELSE NoneValue

LoadedVectors(fv) == IF Readable(fv) THEN Matrix(fv.data) ELSE NoneValue

LoadedChunks(fc) == IF Readable(fc) THEN fc.data ELSE <<>>
LoadedCorpus(fc) ==
    IF Readable(fc) /\ fc.data # <<>>
    THEN [i \in 1..Len(fc.data) |-> _tokenize(fc.data[i].text)]
    ELSE <<>>
LoadedBM25(fc) ==
    IF Readable(fc) /\ fc.data # <<>> THEN BM25Okapi(LoadedCorpus(fc)) ELSE NoneValue
LoadedDocs(fd) == IF Readable(fd) THEN fd.data ELSE <<>>

\* Discarding the engine and constructing a fresh one on the same storage root
Restart ==
    /\ Idle
    /\ vectors' = LoadedVectors(file_vectors)
    /\ chunks_metadata' = LoadedChunks(file_chunks)
    /\ tokenized_corpus' = LoadedCorpus(file_chunks)
    /\ bm25' = LoadedBM25(file_chunks)
    /\ document_metadata' = LoadedDocs(file_docs)
    /\ UNCHANGED <<disk, tasks, web, threads>>
    /\ last' = [op |-> "restart"]

----------------------------------------------------------------------------
(* VectorStore.add_chunks *)

Texts(chunks) == [i \in 1..Len(chunks) |-> chunks[i].text]

\* Mutant: the new rows replace the matrix instead of extending it
AppendedVectors_replace(v, embeddings) == Matrix(embeddings)

\* lines 82-85: first assignment, or np.vstack
AppendedVectors(v, embeddings) ==
    IF v.isNone THEN Matrix(embeddings) ELSE Matrix(v.rows \o embeddings)

\* np.vstack raises ValueError when the widths differ
StackFails(v, embeddings) ==
    /\ ~v.isNone
    /\ v.rows # <<>>
    /\ Len(v.rows[1]) # Len(embeddings[1])

\* lines 88-90
AppendedCorpus(corpus, texts) ==
    corpus \o [i \in 1..Len(texts) |-> _tokenize(texts[i])]

\* lines 97-106: i is the position in this call's chunk list (enumerate)
ChunkMeta(document_id, i, chunk) ==
    [document_id |-> document_id,
     chunk_id |-> <<document_id, "chunk", i>>,
     text |-> chunk.text,
     chunk_index |-> chunk.chunk_index,
     filename |-> chunk.filename,
     char_count |-> chunk.char_count,
     approx_tokens |-> chunk.approx_tokens]

AppendedMetadata(cm, document_id, chunks) ==
    cm \o [i \in 1..Len(chunks) |-> ChunkMeta(document_id, i - 1, chunks[i])]

add_chunks(document_id, chunks, fail_batch) ==
    LET r == EmbedBatches(Texts(chunks), fail_batch)
        call == [op |-> "add_chunks", document_id |-> document_id,
                 n |-> Len(chunks), fail_batch |-> fail_batch,
                 calls |-> Len(r.calls), batches |-> r.calls]
    IN
    IF chunks = <<>>
    THEN /\ UNCHANGED <<mem, disk>>
         /\ last' = [call EXCEPT !.calls = 0, !.batches = <<>>] @@ [raised |-> FALSE]
    ELSE IF ~r.ok \/ StackFails(vectors, r.embeddings)
    THEN /\ UNCHANGED <<mem, disk>>
         /\ last' = call @@ [raised |-> TRUE]
    ELSE LET v2 == AppendedVectors(vectors, r.embeddings)
             corpus2 == AppendedCorpus(tokenized_corpus, Texts(chunks))
             cm2 == AppendedMetadata(chunks_metadata, document_id, chunks)
         IN /\ vectors' = v2
            /\ tokenized_corpus' = corpus2
            /\ bm25' = BM25Okapi(corpus2)
            /\ chunks_metadata' = cm2
            /\ UNCHANGED document_metadata
            /\ _save_to_disk(v2, cm2, document_metadata)
            /\ last' = call @@ [raised |-> FALSE]

\* The call as the small specifications take it: the store stays within MaxChunks
AddChunks(document_id, chunks, fail_batch) ==
    /\ Idle
    /\ Len(chunks_metadata) + Len(chunks) <= MaxChunks
    /\ RowCount(vectors) + Len(chunks) <= MaxChunks
    /\ add_chunks(document_id, chunks, fail_batch)
    /\ UNCHANGED <<tasks, web, threads>>

----------------------------------------------------------------------------
(* VectorStore.update_document_status.  A filename of "" stands for the    *)
(* falsy values (None, "") that `if not filename` treats alike.            *)

\* Mutant: the filename is taken from the last chunk record of the document
BackfilledFilename_last(cm, document_id) ==
    IF \E i \in 1..Len(cm) : cm[i].document_id = document_id
    THEN cm[CHOOSE i \in 1..Len(cm) :
                /\ cm[i].document_id = document_id
                /\ \A j \in (i + 1)..Len(cm) : cm[j].document_id # document_id].filename
    ELSE "unknown"

BackfilledFilename(cm, document_id) ==
    IF \E i \in 1..Len(cm) : cm[i].document_id = document_id
    THEN cm[CHOOSE i \in 1..Len(cm) :
                /\ cm[i].document_id = document_id
                /\ \A j \in 1..(i - 1) : cm[j].document_id # document_id].filename
    ELSE "unknown"

UpdatedDocs(dm, cm, document_id, status, chunks_count, processed_at, filename) ==
    IF ~HasKey(dm, document_id)
    THEN Append(dm, [document_id |-> document_id,
                     filename |-> IF filename = ""
                                  THEN BackfilledFilename(cm, document_id)
                                  ELSE filename,
                     status |-> status,
                     chunks_count |-> chunks_count,
                     processed_at |-> processed_at])
    ELSE [dm EXCEPT ![KeyIdx(dm, document_id)] =
            [@ EXCEPT !.status = status,
                      !.chunks_count = chunks_count,
                      !.processed_at = processed_at,
                      !.filename = IF filename = "" THEN @ ELSE filename]]

update_document_status(document_id, status, chunks_count, processed_at, filename) ==
    LET dm2 == UpdatedDocs(document_metadata, chunks_metadata, document_id,
                           status, chunks_count, processed_at, filename)
    IN /\ document_metadata' = dm2
       /\ UNCHANGED <<vectors, chunks_metadata, bm25, tokenized_corpus>>
       /\ _save_to_disk(vectors, chunks_metadata, dm2)
       /\ last' = [op |-> "update_document_status", document_id |-> document_id,
                   status |-> status, chunks_count |-> chunks_count,
                   processed_at |-> processed_at, filename |-> filename,
                   created |-> ~HasKey(document_metadata, document_id)]

\* The argument shapes the service uses (app.py lines 142-147, 153, 194)
StatusCalls ==
    {[status |-> "processing", chunks_count |-> 0, processed_at |-> "None", filename |-> f] :
        f \in {"a.txt", "b.txt"}}
    \cup {[status |-> "completed", chunks_count |-> n, processed_at |-> "t1", filename |-> ""] :
        n \in 1..2}
    \cup {[status |-> "failed", chunks_count |-> 0, processed_at |-> "None", filename |-> ""]}

UpdateDocumentStatus(document_id, c) ==
    /\ Idle
    /\ update_document_status(document_id, c.status, c.chunks_count, c.processed_at, c.filename)
    /\ UNCHANGED <<tasks, web, threads>>

----------------------------------------------------------------------------
(* VectorStore.delete_document *)

\* Mutant: the surviving positions are collected in descending order
RemainingIndices_reversed(cm, document_id) ==
    LET up == SelectSeq([i \in 1..Len(cm) |-> i], LAMBDA i : cm[i].document_id # document_id)
    IN [k \in 1..Len(up) |-> up[Len(up) + 1 - k]]

\* line 249, as positions 1..Len
RemainingIndices(cm, document_id) ==
    SelectSeq([i \in 1..Len(cm) |-> i], LAMBDA i : cm[i].document_id # document_id)

\* Mutant: the matrix is left unfiltered by a deletion
FilteredRows_unfiltered(v, remaining) == v

\* lines 255-256: self.vectors[remaining_indices]
FilteredRows(v, remaining) ==
    IF v.isNone THEN v
    ELSE Matrix([k \in 1..Len(remaining) |-> v.rows[remaining[k]]])

\* self.vectors[remaining_indices] raises IndexError on a position past the matrix
IndexFails(v, remaining) ==
    /\ ~v.isNone
    /\ \E k \in 1..Len(remaining) : remaining[k] > Len(v.rows)

\* Mutant: the matrix is filtered but never reset when no chunk record is left
RowsAfterDelete_noReset(v, cm2, remaining) == FilteredRows(v, remaining)

\* lines 255-266: the filtered matrix, reset to None when no chunk record is left
RowsAfterDelete(v, cm2, remaining) ==
    IF cm2 = <<>> THEN NoneValue ELSE FilteredRows(v, remaining)

delete_document(document_id) ==
    LET call == [op |-> "delete_document", document_id |-> document_id]
        dm2 == DictDel(document_metadata, document_id)
        remaining == RemainingIndices(chunks_metadata, document_id)
        cm2 == [k \in 1..Len(remaining) |-> chunks_metadata[remaining[k]]]
        corpus2 == [k \in 1..Len(cm2) |-> _tokenize(cm2[k].text)]
        v2 == RowsAfterDelete(vectors, cm2, remaining)
    IN
    IF ~HasKey(document_metadata, document_id)
    THEN /\ UNCHANGED <<mem, disk>>
         /\ last' = call @@ [ret |-> FALSE, raised |-> FALSE]
    ELSE IF Len(remaining) = Len(chunks_metadata)
    THEN /\ document_metadata' = dm2
         /\ UNCHANGED <<vectors, chunks_metadata, bm25, tokenized_corpus, disk>>
         /\ last' = call @@ [ret |-> FALSE, raised |-> FALSE]
    ELSE IF IndexFails(vectors, remaining)
    THEN /\ document_metadata' = dm2
         /\ chunks_metadata' = cm2
         /\ UNCHANGED <<vectors, bm25, tokenized_corpus, disk>>
         /\ last' = call @@ [ret |-> FALSE, raised |-> TRUE]
    ELSE /\ document_metadata' = dm2
         /\ chunks_metadata' = cm2
         /\ vectors' = v2
         /\ tokenized_corpus' = corpus2
         /\ bm25' = IF cm2 = <<>> THEN NoneValue ELSE BM25Okapi(corpus2)
         /\ _save_to_disk(v2, cm2, dm2)
         /\ last' = call @@ [ret |-> TRUE, raised |-> FALSE]

DeleteDocument(document_id) ==
    /\ Idle
    /\ delete_document(document_id)
    /\ UNCHANGED <<tasks, web, threads>>

----------------------------------------------------------------------------
(* Reads *)

get_document_status(dm, document_id) ==
    IF HasKey(dm, document_id)
    THEN [found |-> TRUE, record |-> DictGet(dm, document_id)]
    ELSE [found |-> FALSE, record |-> <<>>]

list_documents(dm) == dm

has_documents(cm) == Len(cm) > 0

GetDocumentStatus(document_id) ==
    /\ Idle
    /\ UNCHANGED <<mem, disk, tasks, web, threads>>
    /\ last' = [op |-> "get_document_status", document_id |-> document_id,
                ret |-> get_document_status(document_metadata, document_id)]

ListDocuments ==
    /\ Idle
    /\ UNCHANGED <<mem, disk, tasks, web, threads>>
    /\ last' = [op |-> "list_documents", ret |-> list_documents(document_metadata)]

HasDocuments ==
    /\ Idle
    /\ UNCHANGED <<mem, disk, tasks, web, threads>>
    /\ last' = [op |-> "has_documents", ret |-> has_documents(chunks_metadata)]

----------------------------------------------------------------------------
(* VectorStore.search *)

Queries == {<<"mammals">>, <<"Rocks">>, <<"reptiles">>}

\* The provider's query-mode answer: "ok" a vector of the stored width,
\* "wide" a vector of another width (another embedding model), "error" a raise.
QueryAnswers == {"ok", "wide", "error"}

QueryVector(query, answer) ==
    LET w == Lower(query[1])
        v == CASE w = "mammals" -> <<4, 3>>
               [] w = "cats"    -> <<1, 0>>
               [] w = "reptiles" -> <<-1, 0>>
               [] OTHER         -> <<0, 0>>
    IN IF answer = "wide" THEN v \o <<0>> ELSE v

Dot(a, b) == SeqSum([i \in 1..Len(a) |-> a[i] * b[i]])

\* np.linalg.norm, exact for the vectors of this model (norms 0, 1, 5)
Norm(v) == CHOOSE n \in 0..Dot(v, v) : n * n = Dot(v, v)

\* dense components are kept in units of 1/DenseScale
DenseScale == 5 * 5

\* Mutant: a row of norm 0 is reported as a full match
CosineScores_zeroRowsMatch(rows, query_embedding) ==
    LET norm_query == Norm(query_embedding)
        qdiv == IF norm_query > 0 THEN norm_query ELSE 1
    IN [i \in 1..Len(rows) |->
          IF Norm(rows[i]) = 0 THEN DenseScale
          ELSE (DenseScale * Dot(rows[i], query_embedding)) \div (qdiv * Norm(rows[i]))]

\* lines 141-155: cosine of the query against each row.  The query is divided
\* by its norm unless that is 0; a row norm of 0 is replaced by 1.
CosineScores(rows, query_embedding) ==
    LET norm_query == Norm(query_embedding)
        qdiv == IF norm_query > 0 THEN norm_query ELSE 1
    IN [i \in 1..Len(rows) |->
          LET doc_norm == IF Norm(rows[i]) = 0 THEN 1 ELSE Norm(rows[i])
          IN (DenseScale * Dot(rows[i], query_embedding)) \div (qdiv * doc_norm)]

\* Mutant: a provider failure or a width difference is not noticed, the
\* cosine is taken over the leading components
VectorResults_unchecked(v, query, answer) ==
    IF v.rows = <<>> THEN <<>>
    ELSE CosineScores(v.rows, QueryVector(query, "ok"))

\* vector_results: position -> dense component; empty when the provider raised
\* or the widths differ
VectorResults(v, query, answer) ==
    IF answer = "error" THEN <<>>
    ELSE IF v.rows = <<>> THEN <<>>
    ELSE IF Len(v.rows[1]) # Len(QueryVector(query, answer)) THEN <<>>
    ELSE CosineScores(v.rows, QueryVector(query, answer))

(* rank_bm25.BM25Okapi, an external library, as an integer surrogate that  *)
(* keeps the signs: idf(w) = log(N - n + 0.5) - log(n + 0.5) has the sign  *)
(* of N - 2n (kept in sixteenths); a negative idf is replaced by           *)
(* epsilon * average idf (epsilon = 1/4); the term-frequency factor is the *)
(* term's count.                                                           *)

Count(doc, w) == Cardinality({i \in 1..Len(doc) : doc[i] = w})
Vocab(corpus) == UNION {{corpus[i][j] : j \in 1..Len(corpus[i])} : i \in 1..Len(corpus)}
DocFreq(corpus, w) == Cardinality({i \in 1..Len(corpus) : Count(corpus[i], w) > 0})
RawIdf(corpus, w) == 16 * (Len(corpus) - 2 * DocFreq(corpus, w))

RECURSIVE IdfSum(_, _)
IdfSum(corpus, words) ==
    IF words = {} THEN 0
    ELSE LET w == CHOOSE x \in words : TRUE
         IN RawIdf(corpus, w) + IdfSum(corpus, words \ {w})

AverageIdf(corpus) == IdfSum(corpus, Vocab(corpus)) \div Cardinality(Vocab(corpus))

Idf(corpus, w) ==
    IF w \notin Vocab(corpus) THEN 0
    ELSE IF RawIdf(corpus, w) < 0 THEN AverageIdf(corpus) \div 4
    ELSE RawIdf(corpus, w)

\* BM25Okapi.get_scores
GetScores(corpus, tokenized_query) ==
    [i \in 1..Len(corpus) |->
        SeqSum([k \in 1..Len(tokenized_query) |->
                  Idf(corpus, tokenized_query[k]) * Count(corpus[i], tokenized_query[k])])]

SeqMax(s) == CHOOSE m \in {s[i] : i \in 1..Len(s)} : \A i \in 1..Len(s) : s[i] <= m

\* Mutant: the raw scores are not normalised
MaxBM25_unnormalised(bm25_scores) == 1

\* lines 169-170
MaxBM25(bm25_scores) ==
    IF Len(bm25_scores) = 0 THEN 1
    ELSE IF SeqMax(bm25_scores) = 0 THEN 1
    ELSE SeqMax(bm25_scores)

\* lines 164-173: position -> score / max_bm25, a rational kept with a
\* positive denominator
Ratio(num, den) == IF den < 0 THEN [num |-> -num, den |-> -den] ELSE [num |-> num, den |-> den]

BM25Results(index, query) ==
    IF index.isNone THEN <<>>
    ELSE LET bm25_scores == GetScores(index.rows, _tokenize(query))
         IN [i \in 1..Len(bm25_scores) |-> Ratio(bm25_scores[i], MaxBM25(bm25_scores))]

\* the common positive denominator of the sparse components of one query
SparseDen(bm25_results) == IF bm25_results = <<>> THEN 1 ELSE bm25_results[1].den

\* Mutant: the two weights are swapped
FinalScore_swapped(alpha, v_score, b_score) ==
    [num |-> (10 - alpha) * v_score * b_score.den + alpha * b_score.num * DenseScale,
     den |-> 10 * DenseScale * b_score.den]

\* line 190: alpha * v_score + (1 - alpha) * b_score, alpha in tenths, as a
\* rational over the denominator 10 * DenseScale * SparseDen
FinalScore(alpha, v_score, b_score) ==
    [num |-> alpha * v_score * b_score.den + (10 - alpha) * b_score.num * DenseScale,
     den |-> 10 * DenseScale * b_score.den]

\* Mutant: the document filter is ignored
PassesFilter_ignored(chunk_meta, document_id) == TRUE

\* line 184; "" stands for the falsy filters (None, "")
PassesFilter(chunk_meta, document_id) ==
    ~(document_id # "" /\ chunk_meta.document_id # document_id)

\* lines 176-196.  all_candidates is a set of small non-negative ints, which
\* CPython iterates in ascending order.  idx is the position, counted from 1.
Candidates(cm, vector_results, bm25_results, document_id, alpha) ==
    LET m == IF Len(vector_results) >= Len(bm25_results)
             THEN Len(vector_results) ELSE Len(bm25_results)
        n == Min(m, Len(cm))     \* line 180: positions past the records are skipped
        v_score(idx) == IF idx <= Len(vector_results) THEN vector_results[idx] ELSE 0
        b_score(idx) == IF idx <= Len(bm25_results) THEN bm25_results[idx]
                        ELSE [num |-> 0, den |-> SparseDen(bm25_results)]
        keep(c) == PassesFilter(c.chunk, document_id)
    IN SelectSeq([idx \in 1..n |->
                    [idx |-> idx,
                     chunk |-> cm[idx] @@
                               [score |-> FinalScore(alpha, v_score(idx), b_score(idx)),
                                vector_score |-> v_score(idx),
                                bm25_score |-> b_score(idx)]]],
                 keep)

\* Mutant: an unstable descending sort, equal keys end up reversed
StaysBefore_unstable(earlier, x) == earlier.chunk.score.num > x.chunk.score.num

\* line 198: list.sort(key=score, reverse=True) is stable: an element placed
\* earlier stays before x unless x's score is strictly greater.  The scores of
\* one query share their denominator.
StaysBefore(earlier, x) == earlier.chunk.score.num >= x.chunk.score.num

RECURSIVE InsertDesc(_, _)
InsertDesc(sorted, x) ==
    IF sorted = <<>> THEN <<x>>
    ELSE IF StaysBefore(Head(sorted), x)
         THEN <<Head(sorted)>> \o InsertDesc(Tail(sorted), x)
         ELSE <<x>> \o sorted

RECURSIVE SortDesc(_)
SortDesc(s) ==
    IF s = <<>> THEN <<>>
    ELSE InsertDesc(SortDesc(SubSeq(s, 1, Len(s) - 1)), s[Len(s)])

\* line 199
TopK(s, top_k) == SubSeq(s, 1, Min(top_k, Len(s)))

\* Mutant: only the matrix is tested for emptiness
EmptyStore_vectorsOnly(v, cm) == v.isNone

\* line 126
EmptyStore(v, cm) == v.isNone \/ Len(cm) = 0

\* Mutant: the list is cut to top_k before the document filter is applied
Ranked_filterAfterCut(v, cm, index, query, top_k, document_id, alpha, answer) ==
    IF EmptyStore(v, cm) THEN <<>>
    ELSE SelectSeq(TopK(SortDesc(Candidates(cm, VectorResults(v, query, answer),
                                            BM25Results(index, query), "", alpha)),
                        top_k),
                   LAMBDA c : PassesFilter(c.chunk, document_id))

Ranked(v, cm, index, query, top_k, document_id, alpha, answer) ==
    IF EmptyStore(v, cm) THEN <<>>
    ELSE TopK(SortDesc(Candidates(cm, VectorResults(v, query, answer),
                                  BM25Results(index, query), document_id, alpha)),
              top_k)

\* Mutant: the score fields are written into the stored records of the
\* results instead of into copies
ChunksAfterSearch_noCopy(cm, ranked) ==
    [i \in 1..Len(cm) |->
        IF \E k \in 1..Len(ranked) : ranked[k].idx = i
        THEN ranked[CHOOSE k \in 1..Len(ranked) : ranked[k].idx = i].chunk
        ELSE cm[i]]

\* line 182: the scores are set on a copy of each record, the stored records
\* stay as they were
ChunksAfterSearch(cm, ranked) == cm

search(query, top_k, document_id, alpha, answer) ==
    /\ \E ranked \in {Ranked(vectors, chunks_metadata, bm25, query, top_k,
                              document_id, alpha, answer)} :
          /\ last' = [op |-> "search", query |-> query, top_k |-> top_k,
                      document_id |-> document_id, alpha |-> alpha, answer |-> answer,
                      raised |-> FALSE,
                      embed_calls |-> IF EmptyStore(vectors, chunks_metadata) THEN 0 ELSE 1,
                      ret |-> [k \in 1..Len(ranked) |-> ranked[k].chunk],
                      positions |-> [k \in 1..Len(ranked) |-> ranked[k].idx]]
          /\ chunks_metadata' = ChunksAfterSearch(chunks_metadata, ranked)
    /\ UNCHANGED <<vectors, document_metadata, bm25, tokenized_corpus, disk>>

Search(query, top_k, document_id, alpha, answer) ==
    /\ Idle
    /\ search(query, top_k, document_id, alpha, answer)
    /\ UNCHANGED <<tasks, web, threads>>

----------------------------------------------------------------------------
(* The service (app.py): upload handler, background ingestion, delete       *)
(* endpoint.  A document id is a fresh uuid4, so each id is uploaded at     *)
(* most once.  The background task is a plain function, which the framework *)
(* runs on a worker thread after the upload response: other requests are    *)
(* served between its engine calls.  A task's pc:                           *)
(*   "unused"       the id has not been uploaded                            *)
(*   "scheduled"    add_task done, the task has not called the engine yet   *)
(*   "stored"       add_chunks returned, the "completed" update is next     *)
(*   "failing"      an exception was caught, the "failed" update is next    *)
(*   "done"         the task has returned or raised                         *)
(*   "unscheduled"  the upload handler raised before add_task               *)
(*   "lost"         the process was restarted while the task was pending    *)

\* Which write of _save_to_disk raises, 0 for none.  A failing write raises
\* when it opens its file, which is left as it was; the writes after it are
\* not reached.
SaveFailures == 0..3

\* Mutant: the chunk records are written before the matrix
_save_to_disk_io_chunksFirst(v, cm, dm, fail_write) ==
    /\ file_chunks' = IF fail_write = 1 THEN file_chunks ELSE File(cm)
    /\ file_vectors' = IF fail_write \in 1..2 THEN file_vectors ELSE SavedVectors(v, file_vectors)
    /\ file_docs' = IF fail_write \in 1..3 THEN file_docs ELSE File(dm)

_save_to_disk_io(v, cm, dm, fail_write) ==
    /\ file_vectors' = IF fail_write = 1 THEN file_vectors ELSE SavedVectors(v, file_vectors)
    /\ file_chunks' = IF fail_write \in 1..2 THEN file_chunks ELSE File(cm)
    /\ file_docs' = IF fail_write \in 1..3 THEN file_docs ELSE File(dm)

\* update_document_status whose save may raise: the record is already changed
\* in memory when _save_to_disk is called (line 231)
update_document_status_io(document_id, status, chunks_count, processed_at, filename, fail_write) ==
    LET dm2 == UpdatedDocs(document_metadata, chunks_metadata, document_id,
                           status, chunks_count, processed_at, filename)
    IN /\ fail_write = 1 => ~vectors.isNone
       /\ document_metadata' = dm2
       /\ UNCHANGED <<vectors, chunks_metadata, bm25, tokenized_corpus>>
       /\ _save_to_disk_io(vectors, chunks_metadata, dm2, fail_write)
       /\ last' = [op |-> "update_document_status", document_id |-> document_id,
                   status |-> status, chunks_count |-> chunks_count,
                   processed_at |-> processed_at, filename |-> filename,
                   created |-> ~HasKey(document_metadata, document_id),
                   raised |-> fail_write # 0]

Filenames == {"a.txt", "b.txt"}

\* chunk_text(extract_text(file_path), filename): the chunk lists a file of
\* that name can give, the empty list for a file without text
PayloadsOf(filename) ==
    {p \in SmallPayloads : \A i \in 1..Len(p) : p[i].filename = filename}

Pending == {"scheduled", "stored", "failing"}

\* upload_document, lines 193-202
Upload(document_id, filename, fail_write) ==
    /\ tasks[document_id].pc = "unused"
    /\ update_document_status_io(document_id, "processing", 0, "None", filename, fail_write)
    /\ tasks' = [tasks EXCEPT ![document_id] =
                    [pc |-> IF fail_write = 0 THEN "scheduled" ELSE "unscheduled",
                     filename |-> filename, chunks_count |-> 0]]
    /\ UNCHANGED <<web, threads>>

\* process_document_background, lines 133-139: extraction and chunking, which
\* touch no engine state, then add_chunks; any exception goes to the handler
\* at line 151
Ingest(document_id, extracted, chunks, fail_batch) ==
    /\ tasks[document_id].pc = "scheduled"
    /\ UNCHANGED <<web, threads>>
    /\ IF ~extracted
       THEN /\ UNCHANGED <<mem, disk, last>>
            /\ tasks' = [tasks EXCEPT ![document_id].pc = "failing"]
       ELSE /\ chunks \in PayloadsOf(tasks[document_id].filename)
            /\ Len(chunks_metadata) + Len(chunks) <= MaxChunks
            /\ RowCount(vectors) + Len(chunks) <= MaxChunks
            /\ add_chunks(document_id, chunks, fail_batch)
            /\ tasks' = [tasks EXCEPT ![document_id] =
                            [@ EXCEPT !.pc = IF last'.raised THEN "failing" ELSE "stored",
                                      !.chunks_count = Len(chunks)]]

\* lines 142-147; an exception of the save goes to the handler at line 151
MarkCompleted(document_id, fail_write) ==
    /\ tasks[document_id].pc = "stored"
    /\ update_document_status_io(document_id, "completed",
                                 tasks[document_id].chunks_count, "t1", "", fail_write)
    /\ tasks' = [tasks EXCEPT ![document_id].pc =
                    IF fail_write = 0 THEN "done" ELSE "failing"]
    /\ UNCHANGED <<web, threads>>

\* lines 151-153; an exception here leaves the task
MarkFailed(document_id, fail_write) ==
    /\ tasks[document_id].pc = "failing"
    /\ update_document_status_io(document_id, "failed", 0, "None", "", fail_write)
    /\ tasks' = [tasks EXCEPT ![document_id].pc = "done"]
    /\ UNCHANGED <<web, threads>>

\* one step of the background task of a document
TaskStep(document_id) ==
    \/ \E e \in BOOLEAN, p \in SmallPayloads, f \in 0..1 : Ingest(document_id, e, p, f)
    \/ \E w \in SaveFailures : MarkCompleted(document_id, w)
    \/ \E w \in SaveFailures : MarkFailed(document_id, w)

\* DELETE /documents/{document_id}, lines 323-333
Delete(document_id) ==
    /\ delete_document(document_id)
    /\ UNCHANGED <<tasks, web, threads>>

\* The process stops and is started again: the engine is rebuilt from the
\* files, the pending background tasks are gone
ProcessRestart ==
    /\ vectors' = LoadedVectors(file_vectors)
    /\ chunks_metadata' = LoadedChunks(file_chunks)
    /\ tokenized_corpus' = LoadedCorpus(file_chunks)
    /\ bm25' = LoadedBM25(file_chunks)
    /\ document_metadata' = LoadedDocs(file_docs)
    /\ UNCHANGED disk
    /\ last' = [op |-> "restart"]
    /\ tasks' = [d \in Docs |->
                    IF tasks[d].pc \in Pending THEN [tasks[d] EXCEPT !.pc = "lost"]
                    ELSE tasks[d]]
    /\ rate_limit_store' = [c \in Clients |-> <<>>]
    /\ UNCHANGED <<clock, admitted_log, threads>>

----------------------------------------------------------------------------
(* Specifications *)

\* The engine: every call, and restarts
Next ==
    \/ \E d \in Docs, p \in SmallPayloads, f \in 0..1 : AddChunks(d, p, f)
    \/ \E d \in Docs, c \in StatusCalls : UpdateDocumentStatus(d, c)
    \/ \E d \in Docs : DeleteDocument(d)
    \/ \E d \in Docs : GetDocumentStatus(d)
    \/ ListDocuments
    \/ HasDocuments
    \/ Restart
    \/ Respond

Spec == Init /\ [][Next]_vars

\* One engine instance from an empty storage root, never restarted
NextSession ==
    \/ \E d \in Docs, p \in SmallPayloads, f \in 0..1 : AddChunks(d, p, f)
    \/ \E d \in Docs, c \in StatusCalls : UpdateDocumentStatus(d, c)
    \/ \E d \in Docs : DeleteDocument(d)
    \/ \E d \in Docs : GetDocumentStatus(d)
    \/ ListDocuments
    \/ HasDocuments
    \/ Respond

SpecSession == Init /\ [][NextSession]_vars

\* The engine with searches; the status calls are cut down to one shape
SearchStatusCalls ==
    {[status |-> "completed", chunks_count |-> 1, processed_at |-> "t1", filename |-> "a.txt"]}

TopKs == 1..2
Alphas == {0, 7, 10}    \* in tenths; 7 is the default alpha = 0.7

NextSearch ==
    \/ \E d \in Docs, p \in SmallPayloads \ {<<>>} : AddChunks(d, p, 0)
    \/ \E d \in Docs, c \in SearchStatusCalls : UpdateDocumentStatus(d, c)
    \/ \E d \in Docs : DeleteDocument(d)
    \/ Restart
    \/ Respond
    \/ \E q \in Queries, k \in TopKs, d \in Docs \cup {""}, a \in Alphas,
          ans \in QueryAnswers :
             \* the query whose vector points away from the stored ones is
             \* asked unfiltered and with the provider answering
             /\ q = <<"reptiles">> => (d = "" /\ ans = "ok")
             /\ Search(q, k, d, a, ans)
    \/ \E d \in Docs : GetDocumentStatus(d)
    \/ ListDocuments
    \/ HasDocuments

SpecSearch == Init /\ [][NextSearch]_vars

\* queries for the sparse path: one of two words, which the stored texts
\* match to different degrees, and one that a single text matches
SparseQueries == {<<"dogs", "mammals">>, <<"Rocks">>}

\* The engine searched with the default alpha and the provider answering
NextSparse ==
    \/ \E d \in Docs, p \in SmallPayloads \ {<<>>} : AddChunks(d, p, 0)
    \/ \E d \in Docs, c \in SearchStatusCalls : UpdateDocumentStatus(d, c)
    \/ \E d \in Docs : DeleteDocument(d)
    \/ Restart
    \/ Respond
    \/ \E q \in SparseQueries, k \in TopKs, d \in Docs \cup {""} : Search(q, k, d, 7, "ok")

SpecSparse == Init /\ [][NextSparse]_vars

\* The engine fed documents of three embedding batches, the provider failing
\* on any one of them
AddBigChunks(document_id, fail_batch) ==
    /\ Idle
    /\ Len(chunks_metadata) + Len(PayloadBig) <= MaxBigDocs * Len(PayloadBig)
    /\ RowCount(vectors) + Len(PayloadBig) <= MaxBigDocs * Len(PayloadBig)
    /\ add_chunks(document_id, PayloadBig, fail_batch)
    /\ UNCHANGED <<tasks, web, threads>>

\* document sizes around the batch size: the first n chunks of the big
\* document
BatchSizes == {1, batch_size, batch_size + 1, 2 * batch_size, 2 * batch_size + 1}

\* the chunk lists stored so far, counted by their first chunks
StoredLists(cm) == Cardinality({i \in 1..Len(cm) : cm[i].chunk_index = 0})

AddSizedChunks(document_id, n, fail_batch) ==
    /\ Idle
    /\ StoredLists(chunks_metadata) < MaxBigDocs
    /\ RowCount(vectors) + n <= MaxBigDocs * Len(PayloadBig)
    /\ add_chunks(document_id, SubSeq(PayloadBig, 1, n), fail_batch)
    /\ UNCHANGED <<tasks, web, threads>>

NextBatch ==
    \/ \E d \in Docs, f \in 0..NumBatches(Len(PayloadBig)) : AddBigChunks(d, f)
    \/ \E d \in Docs, c \in SearchStatusCalls : UpdateDocumentStatus(d, c)
    \/ \E d \in Docs : DeleteDocument(d)
    \/ Restart
    \/ Respond

SpecBatch == Init /\ [][NextBatch]_vars

\* The engine fed documents of one to three batches, one after the other
NextSizes ==
    \/ \E d \in Docs, n \in BatchSizes : \E f \in 0..NumBatches(n) : AddSizedChunks(d, n, f)
    \/ Respond

SpecSizes == Init /\ [][NextSizes]_vars

\* What becomes of a stored file behind the engine's back
DamageKinds == {"keep", "remove", "garble"}

DamagedFile(file, kind) ==
    CASE kind = "remove" -> NoFile
      [] kind = "garble" -> Garbled
      [] OTHER -> file

\* The storage directory is damaged between two runs: each file is kept,
\* removed or overwritten with bytes its loader rejects
Damage(kv, kc, kd) ==
    /\ Idle
    /\ <<kv, kc, kd>> # <<"keep", "keep", "keep">>
    /\ file_vectors' = DamagedFile(file_vectors, kv)
    /\ file_chunks' = DamagedFile(file_chunks, kc)
    /\ file_docs' = DamagedFile(file_docs, kd)
    /\ UNCHANGED <<mem, last, tasks, web, threads>>

\* The engine over a storage directory that can be damaged
NextLoad ==
    \/ \E d \in Docs, p \in SmallPayloads \ {<<>>} : AddChunks(d, p, 0)
    \/ \E d \in Docs, c \in SearchStatusCalls : UpdateDocumentStatus(d, c)
    \/ \E d \in Docs : DeleteDocument(d)
    \/ \E kv, kc, kd \in DamageKinds : Damage(kv, kc, kd)
    \/ Restart
    \/ Respond

SpecLoad == Init /\ [][NextLoad]_vars

----------------------------------------------------------------------------
(* A process that dies inside _save_to_disk.  The three writes (lines 273,  *)
(* 275-276, 278-279) are separate statements; a process killed after       *)
(* writes_done of them leaves the later files as they were.  Its memory is *)
(* gone with it: the only step after a crash is the construction of a      *)
(* fresh engine on the same storage root.                                  *)

\* the number of writes completed when the process dies between two writes
CrashPoints == 1..2

\* the files hold what the engine holds
SavedState ==
    /\ LoadedVectors(file_vectors) = vectors
    /\ LoadedChunks(file_chunks) = chunks_metadata
    /\ LoadedDocs(file_docs) = document_metadata

\* what is noted of a call that died in its save; n: the chunk records the
\* call added or removed
CrashRecord(call, document_id, n, writes_done) ==
    [op |-> "crash", call |-> call, document_id |-> document_id, n |-> n,
     writes_done |-> writes_done,
     clean |-> SavedState,
     aligned |-> RowCount(vectors) = Len(chunks_metadata),
     created |-> ~HasKey(document_metadata, document_id)]

\* add_chunks, killed in line 110
CrashInAddChunks(document_id, chunks, writes_done) ==
    /\ Idle
    /\ chunks # <<>>
    /\ Len(chunks_metadata) + Len(chunks) <= MaxChunks
    /\ RowCount(vectors) + Len(chunks) <= MaxChunks
    /\ LET r == EmbedBatches(Texts(chunks), 0)
           v2 == AppendedVectors(vectors, r.embeddings)
           corpus2 == AppendedCorpus(tokenized_corpus, Texts(chunks))
           cm2 == AppendedMetadata(chunks_metadata, document_id, chunks)
       IN /\ ~StackFails(vectors, r.embeddings)
          /\ vectors' = v2
          /\ tokenized_corpus' = corpus2
          /\ bm25' = BM25Okapi(corpus2)
          /\ chunks_metadata' = cm2
          /\ UNCHANGED document_metadata
          /\ _save_to_disk_io(v2, cm2, document_metadata, writes_done + 1)
    /\ last' = CrashRecord("add_chunks", document_id, Len(chunks), writes_done)
    /\ UNCHANGED <<tasks, web, threads>>

\* update_document_status, killed in line 231.  With no matrix in memory the
\* first write is skipped, so there is no point after it.
CrashInUpdateStatus(document_id, c, writes_done) ==
    /\ Idle
    /\ writes_done = 1 => ~vectors.isNone
    /\ LET dm2 == UpdatedDocs(document_metadata, chunks_metadata, document_id,
                              c.status, c.chunks_count, c.processed_at, c.filename)
       IN /\ document_metadata' = dm2
          /\ UNCHANGED <<vectors, chunks_metadata, bm25, tokenized_corpus>>
          /\ _save_to_disk_io(vectors, chunks_metadata, dm2, writes_done + 1)
    /\ last' = CrashRecord("update_document_status", document_id, 0, writes_done)
    /\ UNCHANGED <<tasks, web, threads>>

\* delete_document, killed in line 268: the call has removed chunk records
\* and filtered the matrix
CrashInDelete(document_id, writes_done) ==
    /\ Idle
    /\ HasKey(document_metadata, document_id)
    /\ LET dm2 == DictDel(document_metadata, document_id)
           remaining == RemainingIndices(chunks_metadata, document_id)
           cm2 == [k \in 1..Len(remaining) |-> chunks_metadata[remaining[k]]]
           corpus2 == [k \in 1..Len(cm2) |-> _tokenize(cm2[k].text)]
           v2 == RowsAfterDelete(vectors, cm2, remaining)
       IN /\ Len(remaining) # Len(chunks_metadata)
          /\ ~IndexFails(vectors, remaining)
          /\ writes_done = 1 => ~v2.isNone
          /\ document_metadata' = dm2
          /\ chunks_metadata' = cm2
          /\ vectors' = v2
          /\ tokenized_corpus' = corpus2
          /\ bm25' = IF cm2 = <<>> THEN NoneValue ELSE BM25Okapi(corpus2)
          /\ _save_to_disk_io(v2, cm2, dm2, writes_done + 1)
          /\ last' = CrashRecord("delete_document", document_id,
                                 Len(chunks_metadata) - Len(remaining), writes_done)
    /\ UNCHANGED <<tasks, web, threads>>

\* VectorStore() after the crash: _load_from_disk on the files as they are
Recover ==
    /\ last.op = "crash"
    /\ vectors' = LoadedVectors(file_vectors)
    /\ chunks_metadata' = LoadedChunks(file_chunks)
    /\ tokenized_corpus' = LoadedCorpus(file_chunks)
    /\ bm25' = LoadedBM25(file_chunks)
    /\ document_metadata' = LoadedDocs(file_docs)
    /\ last' = [op |-> "restart", crashed |-> last]
    /\ UNCHANGED <<disk, tasks, web, threads>>

\* The engine with a process dying inside a save, followed up to the fresh
\* engine built after the first crash
NextCrash ==
    \/ \E d \in Docs, p \in SmallPayloads \ {<<>>} : AddChunks(d, p, 0)
    \/ \E d \in Docs, c \in SearchStatusCalls : UpdateDocumentStatus(d, c)
    \/ \E d \in Docs : DeleteDocument(d)
    \/ \E d \in Docs, p \in SmallPayloads, k \in CrashPoints : CrashInAddChunks(d, p, k)
    \/ \E d \in Docs, c \in SearchStatusCalls, k \in CrashPoints : CrashInUpdateStatus(d, c, k)
    \/ \E d \in Docs, k \in CrashPoints : CrashInDelete(d, k)
    \/ Recover
    \/ (last.op # "restart" /\ Respond)

SpecCrash == Init /\ [][NextCrash]_vars

----------------------------------------------------------------------------
(* Rate limiting (app.py lines 58-126).  check_rate_limit has no await, so *)
(* the event loop runs it as one step per request.                         *)

RATE_LIMIT == 10
RATE_LIMIT_WINDOW == 60

\* the clock readings at which requests arrive: a start, the last second
\* inside the window of the start, the first second outside it
Readings == {0, 59, 60}

\* Mutant: a timestamp exactly RATE_LIMIT_WINDOW old still counts
Recent_inclusive(timestamps, now) ==
    SelectSeq(timestamps, LAMBDA timestamp : now - timestamp <= RATE_LIMIT_WINDOW)

\* lines 99-102: the timestamps younger than the window
Recent(timestamps, now) ==
    SelectSeq(timestamps, LAMBDA timestamp : now - timestamp < RATE_LIMIT_WINDOW)

\* lines 104-108: the return value, given the cleaned list
check_rate_limit(recent) == ~(Len(recent) >= RATE_LIMIT)

\* lines 104-107: the list left in the store
Recorded(recent, now) ==
    IF check_rate_limit(recent) THEN Append(recent, now) ELSE recent

\* rate_limit_middleware for one request of a client: 429 unless
\* check_rate_limit returns True
Request(client_ip) ==
    /\ \E recent \in {Recent(rate_limit_store[client_ip], clock)} :
          /\ rate_limit_store' = [rate_limit_store EXCEPT ![client_ip] = Recorded(recent, clock)]
          /\ admitted_log' = IF check_rate_limit(recent)
                             THEN [admitted_log EXCEPT ![client_ip] = Append(@, clock)]
                             ELSE admitted_log
          /\ last' = [op |-> "request", client_ip |-> client_ip,
                      status_code |-> IF check_rate_limit(recent) THEN 200 ELSE 429]
    /\ UNCHANGED <<mem, disk, tasks, clock, threads>>

\* time passes
Tick(now) ==
    /\ now > clock
    /\ clock' = now
    /\ UNCHANGED <<mem, disk, tasks, last, rate_limit_store, admitted_log, threads>>

NextRate ==
    \/ \E c \in Clients : Request(c)
    \/ \E t \in Readings : Tick(t)

SpecRate == Init /\ [][NextRate]_vars

\* The service: uploads, background ingestion, deletions, process restarts
NextApp ==
    \/ \E d \in Docs, fn \in Filenames, w \in SaveFailures : Upload(d, fn, w)
    \/ \E d \in Docs : TaskStep(d)
    \/ \E d \in Docs : Delete(d)
    \/ ProcessRestart

SpecApp == Init /\ [][NextApp]_vars

\* The same, every pending background task eventually taking its next step
\* (the framework runs each scheduled task to its end)
SpecAppFair == SpecApp /\ \A d \in Docs : WF_vars(TaskStep(d))

----------------------------------------------------------------------------
(* The engine calls of the service, statement by statement.  A worker      *)
(* thread can be suspended between any two statements of add_chunks, and   *)
(* the event-loop thread between any two statements of search: the engine  *)
(* takes no lock.  The provider answers the queries of this specification, *)
(* and no document is deleted in it.                                       *)
(* A worker's pc names the statement it executes next:                     *)
(*   "scheduled"  add_chunks has not been called yet                       *)
(*   "embedded"   line 82, the test of self.vectors                        *)
(*   "set"        line 83                                                  *)
(*   "stack"      line 85, the read of self.vectors for np.vstack          *)
(*   "write"      line 85, the assignment                                  *)
(*   "corpus"     line 90, for the i-th text                               *)
(*   "bm25"       lines 93-94                                              *)
(*   "metadata"   line 107, for the i-th chunk                             *)
(*   "save"       line 110                                                 *)
(*   "stored", "failing", "done", "failed"  as for the tasks above         *)

InAdd == {"embedded", "set", "stack", "write", "corpus", "bm25", "metadata", "save"}

\* some add_chunks call is in progress
AddRunning == \E d \in Docs : threads[d].pc \in InAdd

\* upload_document, lines 193-202, on the event-loop thread
ThreadUpload(document_id, filename) ==
    /\ threads["loop"].pc = "idle"
    /\ threads[document_id].pc = "unused"
    /\ \E dm2 \in {UpdatedDocs(document_metadata, chunks_metadata, document_id,
                                "processing", 0, "None", filename)} :
          /\ document_metadata' = dm2
          /\ _save_to_disk(vectors, chunks_metadata, dm2)
    /\ threads' = [threads EXCEPT ![document_id] =
                      [NoCall EXCEPT !.pc = "scheduled", !.filename = filename]]
    /\ UNCHANGED <<vectors, chunks_metadata, bm25, tokenized_corpus, last, tasks, web>>

\* lines 51-79: the embedding requests, which touch no engine state.  The
\* calls in progress at the same time are noted in `alone`.
AddStart(document_id, chunks, fail_batch) ==
    /\ threads[document_id].pc = "scheduled"
    /\ chunks \in PayloadsOf(threads[document_id].filename)
    /\ \E r \in {EmbedBatches(Texts(chunks), fail_batch)} :
          threads' =
             [t \in DOMAIN threads |->
                IF t = document_id
                THEN IF chunks = <<>> THEN [threads[t] EXCEPT !.pc = "stored"]
                     ELSE IF ~r.ok THEN [threads[t] EXCEPT !.pc = "failing"]
                     ELSE [threads[t] EXCEPT !.pc = "embedded", !.chunks = chunks,
                                             !.embeddings = r.embeddings,
                                             !.alone = ~AddRunning]
                ELSE IF chunks = <<>> \/ ~r.ok THEN threads[t]
                ELSE IF t = "loop"
                     THEN [threads[t] EXCEPT !.overlap = (@ \/ threads[t].pc # "idle")]
                     ELSE [threads[t] EXCEPT !.alone = (@ /\ threads[t].pc \notin InAdd)]]
    /\ UNCHANGED <<mem, disk, last, tasks, web>>

\* line 82
AddTest(document_id) ==
    /\ threads[document_id].pc = "embedded"
    /\ threads' = [threads EXCEPT ![document_id].pc =
                      IF vectors.isNone THEN "set" ELSE "stack"]
    /\ UNCHANGED <<mem, disk, last, tasks, web>>

\* line 83
AddSet(document_id) ==
    /\ threads[document_id].pc = "set"
    /\ vectors' = AppendedVectors(NoneValue, threads[document_id].embeddings)
    /\ threads' = [threads EXCEPT ![document_id] =
                      [@ EXCEPT !.pc = "corpus", !.i = 1, !.embeddings = <<>>]]
    /\ UNCHANGED <<chunks_metadata, document_metadata, bm25, tokenized_corpus,
                   disk, last, tasks, web>>

\* line 85: the argument of np.vstack is read
AddRead(document_id) ==
    /\ threads[document_id].pc = "stack"
    /\ threads' = [threads EXCEPT ![document_id] =
                      [@ EXCEPT !.pc = "write", !.old = vectors]]
    /\ UNCHANGED <<mem, disk, last, tasks, web>>

\* line 85: the stacked matrix is assigned
AddWrite(document_id) ==
    /\ threads[document_id].pc = "write"
    /\ vectors' = AppendedVectors(threads[document_id].old, threads[document_id].embeddings)
    /\ threads' = [threads EXCEPT ![document_id] =
                      [@ EXCEPT !.pc = "corpus", !.i = 1, !.embeddings = <<>>,
                                !.old = NoneValue]]
    /\ UNCHANGED <<chunks_metadata, document_metadata, bm25, tokenized_corpus,
                   disk, last, tasks, web>>

\* lines 88-90, one text
AddCorpus(document_id) ==
    /\ threads[document_id].pc = "corpus"
    /\ LET me == threads[document_id]
       IN /\ tokenized_corpus' = Append(tokenized_corpus, _tokenize(me.chunks[me.i].text))
          /\ threads' = [threads EXCEPT ![document_id] =
                            IF me.i = Len(me.chunks)
                            THEN [me EXCEPT !.pc = "bm25", !.i = 0]
                            ELSE [me EXCEPT !.i = me.i + 1]]
    /\ UNCHANGED <<vectors, chunks_metadata, document_metadata, bm25,
                   disk, last, tasks, web>>

\* lines 93-94
AddIndex(document_id) ==
    /\ threads[document_id].pc = "bm25"
    /\ bm25' = BM25Okapi(tokenized_corpus)
    /\ threads' = [threads EXCEPT ![document_id] = [@ EXCEPT !.pc = "metadata", !.i = 1]]
    /\ UNCHANGED <<vectors, chunks_metadata, document_metadata, tokenized_corpus,
                   disk, last, tasks, web>>

\* lines 97-107, one chunk
AddMetadata(document_id) ==
    /\ threads[document_id].pc = "metadata"
    /\ LET me == threads[document_id]
       IN /\ chunks_metadata' = Append(chunks_metadata,
                                       ChunkMeta(document_id, me.i - 1, me.chunks[me.i]))
          /\ threads' = [threads EXCEPT ![document_id] =
                            IF me.i = Len(me.chunks)
                            THEN [me EXCEPT !.pc = "save", !.i = 0]
                            ELSE [me EXCEPT !.i = me.i + 1]]
    /\ UNCHANGED <<vectors, document_metadata, bm25, tokenized_corpus,
                   disk, last, tasks, web>>

\* line 110, and the return
AddSave(document_id) ==
    /\ threads[document_id].pc = "save"
    /\ _save_to_disk(vectors, chunks_metadata, document_metadata)
    /\ threads' = [threads EXCEPT ![document_id].pc = "stored"]
    /\ last' = [op |-> "add_chunks", document_id |-> document_id,
                n |-> Len(threads[document_id].chunks), raised |-> FALSE]
    /\ UNCHANGED <<mem, tasks, web>>

\* process_document_background, lines 142-147 and 151-153
ThreadMark(document_id) ==
    /\ threads[document_id].pc \in {"stored", "failing"}
    /\ LET ok == threads[document_id].pc = "stored"
       IN /\ \E dm2 \in {UpdatedDocs(document_metadata, chunks_metadata, document_id,
                                      IF ok THEN "completed" ELSE "failed",
                                      IF ok THEN Len(threads[document_id].chunks) ELSE 0,
                                      IF ok THEN "t1" ELSE "None", "")} :
                /\ document_metadata' = dm2
                /\ _save_to_disk(vectors, chunks_metadata, dm2)
          /\ threads' = [threads EXCEPT ![document_id].pc = IF ok THEN "done" ELSE "failed"]
    /\ UNCHANGED <<vectors, chunks_metadata, bm25, tokenized_corpus, last, tasks, web>>

\* one statement of the worker thread of a document
WorkerStep(document_id) ==
    \/ \E p \in SmallPayloads, f \in 0..1 : AddStart(document_id, p, f)
    \/ AddTest(document_id)
    \/ AddSet(document_id)
    \/ AddRead(document_id)
    \/ AddWrite(document_id)
    \/ AddCorpus(document_id)
    \/ AddIndex(document_id)
    \/ AddMetadata(document_id)
    \/ AddSave(document_id)
    \/ ThreadMark(document_id)

\* line 146: the norm of each row, 0 replaced by 1
RowNorms(rows) == [i \in 1..Len(rows) |-> IF Norm(rows[i]) = 0 THEN 1 ELSE Norm(rows[i])]

\* lines 150-155 with the norms taken earlier: dividing arrays of different
\* lengths raises ValueError, which line 157 catches with vector_results empty
VectorResultsWith(rows, norms, query_embedding) ==
    LET norm_query == Norm(query_embedding)
        qdiv == IF norm_query > 0 THEN norm_query ELSE 1
    IN IF Len(rows) # Len(norms) THEN <<>>
       ELSE [i \in 1..Len(rows) |->
               (DenseScale * Dot(rows[i], query_embedding)) \div (qdiv * norms[i])]

\* what a returning search hands to its caller, and what it read on the way
SearchReturn(query, ranked, rows_seen, records_seen, sparse_corpus, overlap) ==
    /\ last' = [op |-> "search", query |-> query, raised |-> FALSE,
                ret |-> [k \in 1..Len(ranked) |-> ranked[k].chunk],
                positions |-> [k \in 1..Len(ranked) |-> ranked[k].idx],
                rows_seen |-> rows_seen, records_seen |-> records_seen,
                sparse_corpus |-> sparse_corpus, overlap |-> overlap]
    /\ threads' = [threads EXCEPT !["loop"] =
                      LoopIdle(threads["loop"].saw_mismatch
                                  \/ (overlap /\ rows_seen # records_seen))]

\* ask_question, app.py lines 220-229: 400 without a search when the store
\* has no chunk record; else search is called, whose line 126 comes first
SearchStart(query) ==
    /\ threads["loop"].pc = "idle"
    /\ IF ~has_documents(chunks_metadata)
       THEN /\ last' = [op |-> "ask", status_code |-> 400]
            /\ UNCHANGED threads
       ELSE IF EmptyStore(vectors, chunks_metadata)
       THEN SearchReturn(query, <<>>, RowCount(vectors), Len(chunks_metadata),
                         <<>>, AddRunning)
       ELSE /\ threads' = [threads EXCEPT !["loop"] =
                              [@ EXCEPT !.pc = "norms", !.query = query,
                                        !.overlap = AddRunning]]
            /\ UNCHANGED last
    /\ UNCHANGED <<mem, disk, tasks, web>>

\* lines 131-147: the query embedding, then the row norms
SearchNorms ==
    /\ threads["loop"].pc = "norms"
    /\ threads' = [threads EXCEPT !["loop"] =
                      [@ EXCEPT !.pc = "dot", !.norms = RowNorms(vectors.rows)]]
    /\ UNCHANGED <<mem, disk, last, tasks, web>>

\* lines 150-155
SearchDot ==
    /\ threads["loop"].pc = "dot"
    /\ threads' = [threads EXCEPT !["loop"] =
                      [@ EXCEPT !.pc = "sparse", !.norms = <<>>,
                                !.rows_seen = RowCount(vectors),
                                !.vector_results =
                                    VectorResultsWith(vectors.rows, threads["loop"].norms,
                                                      QueryVector(threads["loop"].query, "ok"))]]
    /\ UNCHANGED <<mem, disk, last, tasks, web>>

\* lines 162-173
SearchSparse ==
    /\ threads["loop"].pc = "sparse"
    /\ threads' = [threads EXCEPT !["loop"] = [@ EXCEPT !.pc = "fuse", !.index = bm25]]
    /\ UNCHANGED <<mem, disk, last, tasks, web>>

\* lines 176-199, with the defaults top_k = 5, alpha = 0.7 and no filter
SearchFuse ==
    /\ threads["loop"].pc = "fuse"
    /\ LET me == threads["loop"]
       IN \E ranked \in {TopK(SortDesc(Candidates(chunks_metadata, me.vector_results,
                                                    BM25Results(me.index, me.query), "", 7)),
                               5)} :
             SearchReturn(me.query, ranked, me.rows_seen, Len(chunks_metadata),
                          me.index.rows, me.overlap)
    /\ UNCHANGED <<mem, disk, tasks, web>>

\* one statement of the event-loop thread
LoopStep ==
    \/ \E d \in Docs, fn \in Filenames : ThreadUpload(d, fn)
    \/ \E q \in {<<"mammals">>} : SearchStart(q)
    \/ SearchNorms
    \/ SearchDot
    \/ SearchSparse
    \/ SearchFuse

NextThreads ==
    \/ \E d \in Docs : WorkerStep(d)
    \/ LoopStep

SpecThreads == Init /\ [][NextThreads]_vars

----------------------------------------------------------------------------
(* Properties *)

ChunksOf(cm, d) == {i \in 1..Len(cm) : cm[i].document_id = d}

\* C1. Alignment invariant: after any sequence of completed addChunks and
\* deleteDocument calls on one engine started from an empty store, the number
\* of chunk records, the row count of the dense matrix (0 when it is None) and
\* the number of sparse-corpus entries are equal.
C1_AlignmentInvariant ==
    /\ Len(chunks_metadata) = RowCount(vectors)
    /\ RowCount(vectors) = Len(tokenized_corpus)

\* C1 witness: a deletion removed some chunk records and left others
C1_Witness ==
    /\ last.op = "delete_document"
    /\ last.ret
    /\ Len(chunks_metadata) > 0
    /\ file_chunks.exists

\* C2. Across restarts the alignment invariant holds in every state, and row i
\* of the dense matrix and entry i of the sparse corpus belong to chunk
\* record i.
C2_AlignedAcrossRestarts ==
    /\ Len(chunks_metadata) = RowCount(vectors)
    /\ Len(chunks_metadata) = Len(tokenized_corpus)
    /\ \A i \in 1..Len(chunks_metadata) :
          /\ vectors.rows[i] = DocVector(chunks_metadata[i].text)
          /\ tokenized_corpus[i] = _tokenize(chunks_metadata[i].text)

\* C3. Deletion completeness: after deleteDocument(d) returns, no chunk record
\* of d remains and getDocumentStatus(d) is not-found.
C3_DeletionCompleteness ==
    (last.op = "delete_document" /\ ~last.raised) =>
        /\ ChunksOf(chunks_metadata, last.document_id) = {}
        /\ ~get_document_status(document_metadata, last.document_id).found

\* C4. deleteDocument(d) returns true exactly when it removed the status
\* record of d or a chunk record of d; when it returns false the document
\* records, chunk records, matrix, corpus and files are as before the call;
\* it never raises.
C4_DeleteReturnsWhetherRemoved ==
    [][ (Idle /\ last'.op = "delete_document") =>
          /\ ~last'.raised
          /\ last'.ret = ( \/ document_metadata' # document_metadata
                           \/ chunks_metadata' # chunks_metadata )
          /\ (~last'.ret => UNCHANGED <<mem, disk>>) ]_vars

\* C5. addChunks is all-or-nothing: if the provider fails on any batch the call
\* raises and the matrix, corpus, sparse index, chunk records, document
\* records and files are exactly as before the call.
C5_AddChunksAllOrNothing ==
    [][ (Idle /\ last'.op = "add_chunks"
              /\ last'.fail_batch \in 1..NumBatches(last'.n)) =>
          /\ last'.raised
          /\ UNCHANGED <<mem, disk>> ]_vars

\* C5 witness: the middle batch of a three-batch document failed on a
\* non-empty store
C5_Witness ==
    /\ last.op = "add_chunks"
    /\ last.raised
    /\ NumBatches(last.n) = 3
    /\ last.fail_batch = 2
    /\ Len(chunks_metadata) > 0

\* C6. Idempotent reload: a fresh engine on the same storage root gives the
\* same listDocuments() and the same search results as the running engine.
C6_IdempotentReload ==
    /\ list_documents(LoadedDocs(file_docs)) = list_documents(document_metadata)
    /\ \A q \in Queries, d \in Docs \cup {""} :
          Ranked(LoadedVectors(file_vectors), LoadedChunks(file_chunks),
                 LoadedBM25(file_chunks), q, 2, d, 7, "ok")
          = Ranked(vectors, chunks_metadata, bm25, q, 2, d, 7, "ok")

\* C7. Every mutating call persists before returning: between calls the
\* persisted chunk records and document records equal the in-memory ones.
C7_PersistedBeforeReturn ==
    /\ LoadedChunks(file_chunks) = chunks_metadata
    /\ LoadedDocs(file_docs) = document_metadata

\* C8. Filter correctness: every result of a search with a non-empty document
\* filter d has document_id = d.
C8_FilterCorrectness ==
    (last.op = "search" /\ last.document_id # "") =>
        \A k \in 1..Len(last.ret) : last.ret[k].document_id = last.document_id

\* C8 witness: a filtered search returned a chunk while a chunk of another
\* document has a strictly higher fused score
C8_Witness ==
    /\ last.op = "search"
    /\ last.document_id # ""
    /\ Len(last.ret) > 0
    /\ LET all == Candidates(chunks_metadata,
                             VectorResults(vectors, last.query, last.answer),
                             BM25Results(bm25, last.query), "", last.alpha)
       IN \E c \in 1..Len(all) :
             /\ all[c].chunk.document_id # last.document_id
             /\ all[c].chunk.score.num > last.ret[1].score.num

\* C9. Empty-store search: with zero chunk records search returns the empty
\* list, does not raise and does not call the embedding provider.
C9_EmptyStoreSearch ==
    (last.op = "search" /\ Len(chunks_metadata) = 0) =>
        /\ last.ret = <<>>
        /\ ~last.raised
        /\ last.embed_calls = 0

\* C9 witness: a search on a store whose documents were all deleted, the
\* matrix file of the deleted chunks having been loaded on restart
C9_Witness ==
    /\ last.op = "search"
    /\ Len(chunks_metadata) = 0
    /\ ~vectors.isNone

\* C10. Ranking order: results are in non-increasing order of fused score,
\* equal scores in ascending order of position in the chunk records; when
\* every fused score is 0 the results are the first chunks passing the filter.
C10_RankingOrder ==
    last.op = "search" =>
        /\ \A j, k \in 1..Len(last.ret) :
              j < k =>
                 /\ last.ret[j].score.num >= last.ret[k].score.num
                 /\ (last.ret[j].score.num = last.ret[k].score.num
                        => last.positions[j] < last.positions[k])
        /\ LET all == Candidates(chunks_metadata,
                                 VectorResults(vectors, last.query, last.answer),
                                 BM25Results(bm25, last.query),
                                 last.document_id, last.alpha)
           IN (~EmptyStore(vectors, chunks_metadata)
               /\ \A c \in 1..Len(all) : all[c].chunk.score.num = 0) =>
                 last.positions = [k \in 1..Min(last.top_k, Len(all)) |-> all[k].idx]

\* C10 witness: two results with equal, non-zero fused scores
C10_Witness ==
    /\ last.op = "search"
    /\ Len(last.ret) = 2
    /\ last.ret[1].score.num = last.ret[2].score.num
    /\ last.ret[1].score.num # 0

\* C10 witness of the degenerate case: two results, every fused score 0
C10_WitnessAllZero ==
    /\ last.op = "search"
    /\ Len(last.ret) = 2
    /\ last.ret[1].score.num = 0
    /\ last.ret[2].score.num = 0

\* The store is aligned and not empty: as many rows and corpus entries as
\* chunk records, and at least one
AlignedNonEmpty ==
    /\ Len(chunks_metadata) > 0
    /\ RowCount(vectors) = Len(chunks_metadata)
    /\ Len(tokenized_corpus) = Len(chunks_metadata)

\* positions (from 1) of the chunk records a filter lets through
Passing(document_id) ==
    {i \in 1..Len(chunks_metadata) :
        document_id = "" \/ chunks_metadata[i].document_id = document_id}

\* the fused score (numerator) of every position for the arguments of the
\* last search, whatever the filter
FusedOfLast ==
    LET all == Candidates(chunks_metadata,
                          VectorResults(vectors, last.query, last.answer),
                          BM25Results(bm25, last.query), "", last.alpha)
    IN [i \in 1..Len(all) |-> all[i].chunk.score.num]

\* the positions of the results of the last search
LastPositions == {last.positions[k] : k \in 1..Len(last.positions)}

\* C11. Top-K selection after filtering: on an aligned non-empty store a
\* search returns exactly min(top_k, number of chunk records passing the
\* filter) results, no chunk twice, all of them passing the filter, and no
\* passing chunk that was left out has a fused score strictly greater than a
\* returned one.
C11_TopKAfterFiltering ==
    (last.op = "search" /\ AlignedNonEmpty) =>
        /\ Len(last.ret) = Min(last.top_k, Cardinality(Passing(last.document_id)))
        /\ \A j, k \in 1..Len(last.positions) :
              j # k => last.positions[j] # last.positions[k]
        /\ \A k \in 1..Len(last.positions) : last.positions[k] \in Passing(last.document_id)
        /\ \A fused \in {FusedOfLast} :
              \A i \in Passing(last.document_id) \ LastPositions :
                 \A k \in 1..Len(last.ret) : fused[i] <= last.ret[k].score.num

\* C11 witness: a filtered search on an aligned store was cut to top_k, a
\* passing chunk was left out, and a chunk of another document ranks ahead of
\* the first one returned (a greater score, or an equal one at an earlier
\* position)
C11_Witness ==
    /\ last.op = "search"
    /\ AlignedNonEmpty
    /\ last.document_id # ""
    /\ Len(last.ret) = last.top_k
    /\ Cardinality(Passing(last.document_id)) > last.top_k
    /\ \E fused \in {FusedOfLast} :
          \E i \in 1..Len(chunks_metadata) :
             /\ i \notin Passing(last.document_id)
             /\ \/ fused[i] > last.ret[1].score.num
                \/ fused[i] = last.ret[1].score.num /\ i < last.positions[1]

\* C12. Fusion formula: every returned result's fused score equals
\* alpha * (its reported dense component) + (1 - alpha) * (its reported sparse
\* component), the component of a path the chunk is absent from being
\* reported as 0; with alpha = 1 the results are ordered by their dense
\* components alone and with alpha = 0 by their sparse components alone.
\* (alpha is in tenths, the dense component in units of 1/DenseScale, the
\* sparse component and the fused score are fractions; the equation is
\* cross-multiplied.)
C12_FusionFormula ==
    last.op = "search" =>
        /\ \A k \in 1..Len(last.ret) :
              LET r == last.ret[k]
              IN /\ r.score.num * (10 * DenseScale * r.bm25_score.den)
                      = r.score.den * (last.alpha * r.vector_score * r.bm25_score.den
                                       + (10 - last.alpha) * r.bm25_score.num * DenseScale)
                 /\ r.score.den > 0 /\ r.bm25_score.den > 0
                 /\ last.answer \in {"error", "wide"} => r.vector_score = 0
                 /\ bm25.isNone => r.bm25_score.num = 0
        /\ last.alpha = 10 =>
              \A j, k \in 1..Len(last.ret) :
                 j < k => last.ret[j].vector_score >= last.ret[k].vector_score
        /\ last.alpha = 0 =>
              \A j, k \in 1..Len(last.ret) :
                 j < k => last.ret[j].bm25_score.num * last.ret[k].bm25_score.den
                            >= last.ret[k].bm25_score.num * last.ret[j].bm25_score.den

\* C12 witness: a search with the default alpha returned a result whose dense
\* and sparse components are both non-zero and differ
C12_Witness ==
    /\ last.op = "search"
    /\ last.alpha = 7
    /\ \E k \in 1..Len(last.ret) :
          /\ last.ret[k].vector_score > 0
          /\ last.ret[k].bm25_score.num > 0
          /\ last.ret[k].vector_score * last.ret[k].bm25_score.den
                # DenseScale * last.ret[k].bm25_score.num

\* C13. Score bounds: every result of every search has a fused score >= 0, a
\* dense component in [-1, 1] and a sparse component in [0, 1].
C13_ScoreBounds ==
    last.op = "search" =>
        \A k \in 1..Len(last.ret) :
           LET r == last.ret[k]
           IN /\ r.score.num >= 0
              /\ -DenseScale <= r.vector_score /\ r.vector_score <= DenseScale
              /\ 0 <= r.bm25_score.num /\ r.bm25_score.num <= r.bm25_score.den

\* the results of the search just returned, in terms of the call's record
DegradedCall(l) == l.op = "search" /\ l.answer \in {"error", "wide"}

SparseOnly(l) ==
    \A k \in 1..Len(l.ret) :
       /\ l.ret[k].vector_score = 0
       /\ l.ret[k].score.num * (10 * l.ret[k].bm25_score.den)
             = l.ret[k].score.den * ((10 - l.alpha) * l.ret[k].bm25_score.num)

RankedBySparse(l) ==
    \A j, k \in 1..Len(l.ret) :
       j < k => l.ret[j].bm25_score.num * l.ret[k].bm25_score.den
                  >= l.ret[k].bm25_score.num * l.ret[j].bm25_score.den

\* C14. Graceful dense degradation: on a non-empty store, when the query
\* embedding call raises or returns a vector of another width than the stored
\* one, search does not raise; its results are ranked by the sparse component
\* alone, each has dense component 0 and fused score (1 - alpha) * sparse, and
\* the engine state is unchanged.
C14_GracefulDenseDegradation ==
    [][(Idle /\ DegradedCall(last') /\ ~EmptyStore(vectors, chunks_metadata)) =>
          /\ ~last'.raised
          /\ Len(last'.ret) > 0 \/ Passing(last'.document_id) = {}
          /\ SparseOnly(last')
          /\ RankedBySparse(last')
          /\ UNCHANGED <<mem, disk>>]_vars

\* C14 as it holds: the same, the ranking by the sparse component being
\* claimed for alpha < 1 only; with alpha = 1 every fused score is 0 and the
\* results come in the order of their positions in the store.
C14_DegradationBelowAlphaOne ==
    [][(Idle /\ DegradedCall(last') /\ ~EmptyStore(vectors, chunks_metadata)) =>
          /\ ~last'.raised
          /\ Len(last'.ret) > 0 \/ Passing(last'.document_id) = {}
          /\ SparseOnly(last')
          /\ last'.alpha < 10 => RankedBySparse(last')
          /\ last'.alpha = 10 =>
                /\ \A k \in 1..Len(last'.ret) : last'.ret[k].score.num = 0
                /\ \A j, k \in 1..Len(last'.positions) :
                      j < k => last'.positions[j] < last'.positions[k]
          /\ UNCHANGED <<mem, disk>>]_vars

\* C14 witness: with the default alpha a search whose query vector had the
\* wrong width returned two results, the first with the greater sparse
\* component, stored after the second
C14_Witness ==
    /\ DegradedCall(last)
    /\ last.answer = "wide"
    /\ last.alpha = 7
    /\ Len(last.ret) = 2
    /\ last.ret[1].bm25_score.num > last.ret[2].bm25_score.num
    /\ last.positions[1] > last.positions[2]

\* the state a delete-to-empty leaves the engine in
ResetState ==
    /\ vectors.isNone
    /\ bm25.isNone
    /\ tokenized_corpus = <<>>
    /\ chunks_metadata = <<>>

\* C15. Delete-to-empty reset: when a delete_document call removes the last
\* remaining chunk records, the dense matrix and the sparse index are both
\* uninitialized afterwards, the sparse corpus is empty and has_documents()
\* is false; a search on the engine so reset returns [], and an add_chunks of
\* n chunks on it produces a dense matrix of exactly n rows.
C15_DeleteToEmptyReset ==
    [][/\ (Idle /\ last'.op = "delete_document"
                /\ chunks_metadata # <<>> /\ chunks_metadata' = <<>>) =>
             /\ ResetState'
             /\ ~has_documents(chunks_metadata')
       /\ (Idle /\ ResetState /\ last'.op = "search") => last'.ret = <<>>
       /\ (Idle /\ ResetState /\ last'.op = "add_chunks" /\ ~last'.raised) =>
             /\ ~vectors'.isNone
             /\ RowCount(vectors') = last'.n]_vars

\* C15 witness: a deletion has just removed the last chunk records of a store
\* whose matrix file holds rows
C15_Witness ==
    /\ last.op = "delete_document"
    /\ last.ret
    /\ ResetState
    /\ file_vectors.exists /\ file_vectors.data # <<>>
    /\ file_chunks.exists /\ file_chunks.data = <<>>

\* C19. update_document_status is an upsert keyed by id: after the call there
\* is exactly one record for the id, with the given status, chunks_count and
\* processed_at; a given filename is stored; without one, a new record gets
\* the filename of the first existing chunk record of the document, or
\* "unknown" when there is none, and an existing record keeps its filename;
\* the records of all other documents and all chunk records are unchanged.
C19_StatusUpsert ==
    [][(Idle /\ last'.op = "update_document_status") =>
          LET d == last'.document_id
              recs == {i \in 1..Len(document_metadata') :
                          document_metadata'[i].document_id = d}
              own == ChunksOf(chunks_metadata, d)
              first == CHOOSE i \in own : \A j \in own : i <= j
          IN /\ Cardinality(recs) = 1
             /\ \A i \in recs :
                   LET r == document_metadata'[i]
                   IN /\ r.status = last'.status
                      /\ r.chunks_count = last'.chunks_count
                      /\ r.processed_at = last'.processed_at
                      /\ r.filename =
                            IF last'.filename # "" THEN last'.filename
                            ELSE IF HasKey(document_metadata, d)
                                 THEN DictGet(document_metadata, d).filename
                            ELSE IF own = {} THEN "unknown"
                            ELSE chunks_metadata[first].filename
             /\ \A d2 \in Docs \ {d} :
                   get_document_status(document_metadata', d2)
                      = get_document_status(document_metadata, d2)
             /\ Len(document_metadata')
                   = Len(document_metadata) + (IF HasKey(document_metadata, d) THEN 0 ELSE 1)
             /\ chunks_metadata' = chunks_metadata]_vars

\* C19 witness: a call without a filename created the record of a document
\* whose chunk records come from two files, next to another document's record
C19_Witness ==
    /\ last.op = "update_document_status"
    /\ last.created
    /\ last.filename = ""
    /\ \E i, j \in ChunksOf(chunks_metadata, last.document_id) :
          /\ i < j
          /\ chunks_metadata[i].filename # chunks_metadata[j].filename
          /\ DictGet(document_metadata, last.document_id).filename
                = chunks_metadata[i].filename
    /\ Len(document_metadata) = 2

\* the calls that only read
ReadOps == {"get_document_status", "list_documents", "has_documents", "search"}

\* C20. Reads do not mutate: get_document_status, list_documents,
\* has_documents and search - for every query, top_k, filter and alpha, also
\* when the query embedding fails - leave the chunk records, the document
\* records, the dense matrix, the sparse corpus and index and the three
\* persisted files unchanged.
C20_ReadsDoNotMutate ==
    [][(Idle /\ last'.op \in ReadOps) => UNCHANGED <<mem, disk>>]_vars

\* C20 witness: a search whose query embedding failed has returned scored
\* results from a persisted store that also holds a document record
C20_Witness ==
    /\ last.op = "search"
    /\ last.answer = "error"
    /\ Len(last.ret) = 2
    /\ document_metadata # <<>>
    /\ file_chunks.exists /\ file_chunks.data = chunks_metadata

\* the status of a document's record, "absent" when there is none
StatusOf(dm, d) == IF HasKey(dm, d) THEN DictGet(dm, d).status ELSE "absent"

\* C16. Document status lifecycle: across the upload handler, the background
\* ingestion and the engine, a record is created as processing, its status
\* changes only from processing to completed or from processing to failed,
\* a completed or failed record never changes again, and the only other
\* change is the record's removal by delete_document - also when a
\* persistence write fails during a status update.  (Stated of the steps of
\* the handlers, the background task and the engine; a process restart is
\* not one of them.)
C16_StatusLifecycle ==
    [][\A d \in Docs :
          LET s == StatusOf(document_metadata, d)
              t == StatusOf(document_metadata', d)
          IN (s # t /\ last'.op # "restart") =>
                \/ s = "absent" /\ t = "processing"
                \/ s = "processing" /\ t \in {"completed", "failed"}
                \/ /\ t = "absent"
                   /\ last'.op = "delete_document"
                   /\ last'.document_id = d]_vars

\* C17. Chunk-count consistency: in every reachable state of the upload,
\* background-ingestion and delete flow a completed record's chunks_count
\* equals the number of chunk records of its document, and a failed record
\* has chunks_count 0 and its document has no chunk record in the store.
C17_ChunkCountConsistency ==
    \A d \in Docs :
       HasKey(document_metadata, d) =>
          LET r == DictGet(document_metadata, d)
          IN /\ r.status = "completed" =>
                   r.chunks_count = Cardinality(ChunksOf(chunks_metadata, d))
             /\ r.status = "failed" =>
                   /\ r.chunks_count = 0
                   /\ ChunksOf(chunks_metadata, d) = {}

\* C18. Ingestion always resolves: a record created in processing whose
\* background task was scheduled eventually is completed, failed or removed,
\* every pending background task eventually taking its next step; no
\* sequence of ingestion failures, deletions or process restarts leaves the
\* record in processing forever.
C18_IngestionResolves ==
    \A d \in Docs :
       (StatusOf(document_metadata, d) = "processing" /\ tasks[d].pc = "scheduled")
          ~> (StatusOf(document_metadata, d) # "processing")

\* C21. chunk_id uniqueness: in every state reached by add_chunks and
\* delete_document calls, two add_chunks calls for the same document id
\* included, no two chunk records of the store have the same chunk_id.
C21_ChunkIdUnique ==
    \A i, j \in 1..Len(chunks_metadata) :
       i # j => chunks_metadata[i].chunk_id # chunks_metadata[j].chunk_id

\* C22. Load never fails startup: constructing the engine succeeds for every
\* combination of absent, valid and unparseable matrix, chunk-record and
\* document-record files; an absent or unparseable file gives the empty value
\* of its structure (no matrix, no chunk records with no corpus and no sparse
\* index, no document records) and the other structures are loaded from
\* their own files.
C22_LoadNeverFails ==
    [][last'.op = "restart" =>
          /\ IF file_vectors.exists /\ file_vectors.parses
             THEN ~vectors'.isNone /\ vectors'.rows = file_vectors.data
             ELSE vectors'.isNone
          /\ IF file_chunks.exists /\ file_chunks.parses
             THEN /\ chunks_metadata' = file_chunks.data
                  /\ Len(tokenized_corpus') = Len(file_chunks.data)
                  /\ bm25'.isNone <=> file_chunks.data = <<>>
             ELSE /\ chunks_metadata' = <<>>
                  /\ tokenized_corpus' = <<>>
                  /\ bm25'.isNone
          /\ IF file_docs.exists /\ file_docs.parses
             THEN document_metadata' = file_docs.data
             ELSE document_metadata' = <<>>
          /\ UNCHANGED disk]_vars

\* C22 witness: an engine was constructed over an unparseable matrix file, a
\* valid chunk file with records and no document file
C22_Witness ==
    /\ last.op = "restart"
    /\ file_vectors.exists /\ ~file_vectors.parses
    /\ file_chunks.exists /\ file_chunks.parses /\ file_chunks.data # <<>>
    /\ ~file_docs.exists
    /\ vectors.isNone
    /\ chunks_metadata = file_chunks.data
    /\ document_metadata = <<>>

\* the admissions of a client that are younger than the window at time now
Young(log, now) == {i \in 1..Len(log) : now - log[i] < RATE_LIMIT_WINDOW}

\* C23. Rate limiting: at every instant a client has at most RATE_LIMIT
\* admitted requests younger than RATE_LIMIT_WINDOW seconds; a request is
\* answered 429 exactly when RATE_LIMIT admitted requests of the same client
\* are younger than the window at that moment; a rejected request is not
\* recorded; the requests of other clients have no part in the decision and
\* their lists are left alone.
C23_RateLimiting ==
    [][/\ \A c \in Clients :
             Cardinality(Young(admitted_log'[c], clock')) <= RATE_LIMIT
       /\ (last'.op = "request" /\ clock' = clock) =>
             LET c == last'.client_ip
                 full == Cardinality(Young(admitted_log[c], clock)) = RATE_LIMIT
             IN /\ last'.status_code = 429 <=> full
                /\ last'.status_code = 200 <=> ~full
                /\ full => /\ admitted_log' = admitted_log
                           /\ Len(rate_limit_store'[c]) <= Len(rate_limit_store[c])
                /\ ~full => admitted_log'[c] = Append(admitted_log[c], clock)
                /\ \A c2 \in Clients \ {c} :
                      /\ rate_limit_store'[c2] = rate_limit_store[c2]
                      /\ admitted_log'[c2] = admitted_log[c2]]_vars

\* C23 witness: a client that was rejected at second 59 with ten admissions
\* from second 0 is admitted again at second 60, while the other client has
\* admissions of its own
C23_Witness ==
    /\ last.op = "request"
    /\ last.status_code = 200
    /\ clock = 60
    /\ Len(admitted_log[last.client_ip]) = RATE_LIMIT + 1
    /\ admitted_log[last.client_ip][RATE_LIMIT] = 0
    /\ \E c2 \in Clients \ {last.client_ip} : Len(admitted_log[c2]) > 0

\* the position, before a deletion of document d, of its k-th survivor
SurvivorPos(cm, d, k) ==
    CHOOSE i \in 1..Len(cm) :
       /\ cm[i].document_id # d
       /\ Cardinality({j \in 1..(i - 1) : cm[j].document_id # d}) = k - 1

\* C24. Deletion preserves survivors: after delete_document(d) has returned
\* True the chunk records are the previous ones of the other documents, in
\* their previous order and with every field unchanged; dense row k and
\* corpus entry k are those that stood at the previous position of the
\* record now at position k; the status records of other documents are
\* unchanged.
C24_DeletionPreservesSurvivors ==
    [][(Idle /\ last'.op = "delete_document" /\ last'.ret) =>
          LET d == last'.document_id
              n == Cardinality({i \in 1..Len(chunks_metadata) :
                                   chunks_metadata[i].document_id # d})
          IN /\ Len(chunks_metadata') = n
             /\ Len(tokenized_corpus') = n
             /\ RowCount(vectors') = (IF vectors.isNone THEN 0 ELSE n)
             /\ \A k \in 1..n :
                   LET p == SurvivorPos(chunks_metadata, d, k)
                   IN /\ chunks_metadata'[k] = chunks_metadata[p]
                      /\ tokenized_corpus'[k] = tokenized_corpus[p]
                      /\ ~vectors.isNone => vectors'.rows[k] = vectors.rows[p]
             /\ \A d2 \in Docs \ {d} :
                   get_document_status(document_metadata', d2)
                      = get_document_status(document_metadata, d2)]_vars

\* C24 witness: a deletion has returned True and left two chunk records with
\* different rows, whose document keeps its status record
C24_Witness ==
    /\ last.op = "delete_document"
    /\ last.ret
    /\ Len(chunks_metadata) = 2
    /\ RowCount(vectors) = 2
    /\ vectors.rows[1] # vectors.rows[2]
    /\ HasKey(document_metadata, chunks_metadata[1].document_id)

\* every thread record keeps its shape
ThreadsTypeOK ==
    /\ DOMAIN threads = Docs \cup {"loop"}
    /\ \A d \in Docs : threads[d].pc \in InAdd \cup {"unused", "scheduled", "stored", "failing", "done", "failed"}
    /\ threads["loop"].pc \in {"idle", "norms", "dot", "sparse", "fuse"}

\* row i and corpus entry i were produced from the text of chunk record i
AlignedByContent ==
    /\ RowCount(vectors) = Len(chunks_metadata)
    /\ Len(tokenized_corpus) = Len(chunks_metadata)
    /\ \A i \in 1..Len(chunks_metadata) :
          /\ i <= RowCount(vectors) => vectors.rows[i] = DocVector(chunks_metadata[i].text)
          /\ i <= Len(tokenized_corpus) =>
                tokenized_corpus[i] = _tokenize(chunks_metadata[i].text)

\* C25. Two overlapping add_chunks calls preserve the alignment: once both
\* background ingestions have returned from add_chunks, the matrix, the corpus
\* and the chunk records have the same length and row i and corpus entry i
\* come from the text of chunk record i.
C25_ConcurrentAddsStayAligned ==
    (\A d \in Docs : threads[d].pc \in {"stored", "done"}) => AlignedByContent

\* no add_chunks call so far has run at the same time as another
AddsAlone == \A d \in Docs : threads[d].alone

\* C26. A search that overlaps a mutating call can read a matrix whose row
\* count differs from the number of chunk records; a search made when the
\* mutating call has returned reads equal counts again.  (The calls meant
\* are single mutations, none of them overlapping another mutation.)
C26_CountsEqualAfterReturn ==
    (last.op = "search" /\ ~last.overlap /\ AddsAlone)
        => last.rows_seen = last.records_seen

\* C26 witness: an earlier search overlapped an add_chunks call and read
\* different counts; the call has returned, and the last search, which
\* overlapped nothing, read equal counts of a non-empty store
C26_Witness ==
    /\ last.op = "search"
    /\ ~last.overlap
    /\ AddsAlone
    /\ threads["loop"].saw_mismatch
    /\ last.records_seen > 0
    /\ last.rows_seen = last.records_seen
    /\ \E d \in Docs : threads[d].pc \in {"stored", "done"}

Forgotten(dm, cm, d) ==
    /\ ~HasKey(dm, d)
    /\ \A i \in 1..Len(cm) : cm[i].document_id # d

\* C28. Delete wins over ingestion: once an uploaded document has been
\* deleted, it has no status record and no chunk record in any later state;
\* the background task neither re-creates the record nor adds chunks.
\* (Stated for the steps of the handlers and the task; a process restart is
\* not such a step.)
C28_DeleteWinsOverIngestion ==
    [][\A d \in Docs :
          (/\ tasks[d].pc # "unused"
           /\ Forgotten(document_metadata, chunks_metadata, d)
           /\ last'.op # "restart")
             => Forgotten(document_metadata', chunks_metadata', d)]_vars

\* C29. Torn persistence: a process that dies between two writes of a save
\* leaves the files of two different states, and the fresh engine takes them
\* as they are.  After the matrix write alone of an add_chunks of n chunks
\* the loaded matrix has n rows more than there are loaded chunk records;
\* of a delete_document that removed n chunk records, n rows fewer; a status
\* record whose first save died before the third write is not loaded, the
\* chunk records being the ones of the files.  The load changes no file.
C29_TornSaveLoadedAsIs ==
    [][(last.op = "crash" /\ last'.op = "restart") =>
          /\ UNCHANGED disk
          /\ RowCount(vectors') = (IF Readable(file_vectors) THEN Len(file_vectors.data) ELSE 0)
          /\ Len(chunks_metadata') = (IF Readable(file_chunks) THEN Len(file_chunks.data) ELSE 0)
          /\ (last.clean /\ last.aligned /\ last.writes_done = 1) =>
                /\ last.call = "add_chunks" =>
                      RowCount(vectors') = Len(chunks_metadata') + last.n
                /\ last.call = "delete_document" =>
                      RowCount(vectors') = Len(chunks_metadata') - last.n
          /\ (last.clean /\ last.call = "update_document_status" /\ last.created) =>
                /\ ~HasKey(document_metadata', last.document_id)
                /\ chunks_metadata' = LoadedChunks(file_chunks)]_vars

\* C29 witness: an add_chunks call on a saved, aligned store died after its
\* matrix write; the fresh engine holds more rows than chunk records
C29_Witness ==
    /\ last.op = "restart"
    /\ "crashed" \in DOMAIN last
    /\ last.crashed.call = "add_chunks"
    /\ last.crashed.writes_done = 1
    /\ last.crashed.clean /\ last.crashed.aligned
    /\ RowCount(vectors) > Len(chunks_metadata)
    /\ Len(chunks_metadata) > 0

\* the number of batches of n texts: the least k with 20 * k >= n
CeilBatches(n) == CHOOSE k \in 0..n : 20 * k >= n /\ 20 * (k - 1) < n

\* C30. Batched embedding: add_chunks with n >= 1 chunks asks for embeddings
\* in ceil(n / 20) calls; call k holds the texts 20(k-1)+1 .. min(20k, n) of
\* the input, in input order, so every text is in exactly one call; when a
\* call fails no further call is made; on success the j-th appended row, the
\* j-th appended corpus entry and the j-th appended chunk record come from
\* the j-th input chunk.
C30_BatchedEmbedding ==
    [][(Idle /\ last'.op = "add_chunks" /\ last'.n >= 1) =>
          LET n == last'.n
              f == last'.fail_batch
              b == last'.batches
              text(j) == PayloadBig[j].text
              rows0 == RowCount(vectors)
              len0 == Len(chunks_metadata)
          IN /\ Len(b) = (IF f \in 1..CeilBatches(n) THEN f ELSE CeilBatches(n))
             /\ last'.calls = Len(b)
             /\ \A k \in 1..Len(b) :
                   /\ Len(b[k]) = Min(20, n - 20 * (k - 1))
                   /\ \A j \in 1..Len(b[k]) : b[k][j] = text(20 * (k - 1) + j)
             /\ last'.raised <=> f \in 1..CeilBatches(n)
             /\ ~last'.raised =>
                   /\ RowCount(vectors') = rows0 + n
                   /\ Len(tokenized_corpus') = Len(tokenized_corpus) + n
                   /\ Len(chunks_metadata') = len0 + n
                   /\ \A j \in 1..n :
                         /\ vectors'.rows[rows0 + j] = DocVector(text(j))
                         /\ tokenized_corpus'[Len(tokenized_corpus) + j] = _tokenize(text(j))
                         /\ chunks_metadata'[len0 + j].text = text(j)
                         /\ chunks_metadata'[len0 + j].chunk_index = PayloadBig[j].chunk_index
                         /\ chunks_metadata'[len0 + j].document_id = last'.document_id]_vars

\* C30 witness: a document of 41 chunks was embedded in three calls, the
\* third of one text, and appended to a non-empty store
C30_Witness ==
    /\ last.op = "add_chunks"
    /\ ~last.raised
    /\ last.n = 41
    /\ last.calls = 3
    /\ Len(last.batches[3]) = 1
    /\ Len(chunks_metadata) > 41
    /\ RowCount(vectors) = Len(chunks_metadata)

\* the raw sparse score of every chunk record of the store for the query of
\* the last search
RawOfLast ==
    GetScores([i \in 1..Len(chunks_metadata) |-> _tokenize(chunks_metadata[i].text)],
              _tokenize(last.query))

\* the divisor of the sparse components: the greatest of the raw scores, 1
\* in its place when it is 0
DivisorOf(raw) ==
    LET greatest == CHOOSE m \in {raw[i] : i \in 1..Len(raw)} :
                        \A i \in 1..Len(raw) : raw[i] <= m
    IN IF greatest = 0 THEN 1 ELSE greatest

\* C31. Sparse normalization scope: in every search on a non-empty store the
\* sparse component of a chunk is its raw sparse score divided by the
\* greatest raw sparse score over all chunks of the store for that query,
\* whatever the document filter, with 1 as the divisor when that greatest
\* score is 0.  (The component is a fraction; the equation is
\* cross-multiplied.)
C31_SparseNormalizationScope ==
    (last.op = "search" /\ ~EmptyStore(vectors, chunks_metadata)) =>
        \A raw \in {RawOfLast} :
           \A k \in 1..Len(last.ret) :
              last.ret[k].bm25_score.num * DivisorOf(raw)
                 = raw[last.positions[k]] * last.ret[k].bm25_score.den

\* C31 witness: a search filtered to one document returned a chunk whose
\* sparse component is strictly between 0 and 1, the greatest raw score
\* being that of a chunk of another document
C31_Witness ==
    /\ last.op = "search"
    /\ last.document_id # ""
    /\ ~EmptyStore(vectors, chunks_metadata)
    /\ \E raw \in {RawOfLast} :
          /\ \A i \in 1..Len(raw) :
                raw[i] = DivisorOf(raw) => chunks_metadata[i].document_id # last.document_id
          /\ \E k \in 1..Len(last.ret) :
                /\ last.ret[k].bm25_score.num > 0
                /\ last.ret[k].bm25_score.num < last.ret[k].bm25_score.den

\* every component of the vector is 0
AllZero(v) == \A i \in 1..Len(v) : v[i] = 0

\* C32. Zero guards: a search on a non-empty store, the provider answering
\* with a vector of the stored width, returns normally with every divisor
\* non-zero; a chunk whose row is all zeros has dense component 0; with a
\* query vector of norm 0 every dense component is 0; when every chunk's raw
\* sparse score is 0 every sparse component is 0.
C32_ZeroGuards ==
    (last.op = "search" /\ last.answer = "ok" /\ ~EmptyStore(vectors, chunks_metadata)) =>
        \A raw \in {RawOfLast} :
           /\ ~last.raised
           /\ DivisorOf(raw) # 0
           /\ \A k \in 1..Len(last.ret) :
                 LET r == last.ret[k]
                     p == last.positions[k]
                 IN /\ r.bm25_score.den # 0
                    /\ r.score.den # 0
                    /\ (p <= RowCount(vectors) /\ AllZero(vectors.rows[p]))
                          => r.vector_score = 0
                    /\ AllZero(QueryVector(last.query, "ok")) => r.vector_score = 0
                    /\ (\A i \in 1..Len(raw) : raw[i] = 0) => r.bm25_score.num = 0

\* C32 witness: a search with a query vector of non-zero norm returned a
\* chunk of non-zero dense component and a chunk whose row is all zeros, with
\* dense component 0
C32_Witness ==
    /\ last.op = "search"
    /\ last.answer = "ok"
    /\ ~AllZero(QueryVector(last.query, "ok"))
    /\ \E j, k \in 1..Len(last.ret) :
          /\ last.ret[j].vector_score # 0
          /\ last.positions[k] <= RowCount(vectors)
          /\ AllZero(vectors.rows[last.positions[k]])
          /\ last.ret[k].vector_score = 0

\* C33. has_documents agrees with search: in every reachable state, loads of
\* absent or unparseable files included, has_documents() is true exactly when
\* a chunk record exists, and when it is true an unfiltered search with
\* top_k >= 1 returns at least one result.
C33_HasDocumentsAgreesWithSearch ==
    /\ has_documents(chunks_metadata) <=> (\E i \in 1..Len(chunks_metadata) : TRUE)
    /\ has_documents(chunks_metadata) =>
          \A q \in Queries, k \in TopKs :
             Ranked(vectors, chunks_metadata, bm25, q, k, "", 7, "ok") # <<>>

====
